---- MODULE Spec2Model ----
(***************************************************************************)
(* Model of the transit telemetry pipeline.                                *)
(*                                                                         *)
(*   - the MotherDuck collector       src/src/index.js, src/src/motherduck.js *)
(*   - the row-store collector        src/unnamed/part_000, src/src/db.js  *)
(*   - the fragment compactor         src/scripts/consolidate.js           *)
(*                                                                         *)
(* Each program is a specification of its own over the shared variable     *)
(* tuple; the variables of the other programs stay at their initial value. *)
(***************************************************************************)
EXTENDS Integers, Sequences, FiniteSets, Bags, TLC

\* ------------------------------------------------------------- bounds
\* feed elements that arrive in one behaviour
MaxRecords == 2
\* feed elements that reach the row-store collector in one behaviour
MaxRowRecords == 3
\* elements of one feed message
MaxMsgLen == 2
\* runs of the aggregator in one behaviour
MaxRuns == 2

\* how many times the cron trigger of a service fires
MaxCron == 2
\* timer-triggered flushes whose sink write is pending at the same time
MaxInflight == 2
\* value the error counter may reach (malformed messages + failed writes)
MaxErrors == 2
\* termination signals (SIGTERM / SIGINT) delivered to the process
MaxSignals == 1
\* fragments the collector uploads in one behaviour
MaxFragments == 3
\* UTC days the clock runs through
MaxDay == 2

VARIABLES
    \* ---- MotherDuck collector (src/src/index.js)
    buffer,       \* let buffer = []                     index.js:9
    stats,        \* let stats = {...}                   index.js:10-16
    inflight,     \* pending uploadBuffer() calls: the toInsert of each
    stored,       \* rows of transit_data (a bag of records)
    nextId,       \* arrival number of the next feed element
    handlers,     \* running shutdown(signal) calls
    dbClosing,    \* closeMotherDuck() has been called
    exited,       \* process.exit() has been called
    exitCode,     \* the code given to process.exit
    exitedBy,     \* the shutdown call that reached process.exit
    lastFail,     \* history: the last failed flush (snapshot, arrivals, buffer after)
    unbuffered,   \* history: ids of valid elements of a message that were not pushed
    \* ---- row-store collector (src/unnamed/part_000, src/src/db.js)
    BATCH_SIZE,    \* parseInt(process.env.BATCH_SIZE) || 1     part_000:5
    messageBuffer, \* let messageBuffer = []                    part_000:8
    rowStats,      \* let stats = {...}                         part_000:9-14
    rowCalls,      \* insertVehiclePositions() calls in progress
    rowStored,     \* rows of vehicle_positions (a bag of records)
    rowNextId,     \* arrival number of the next feed element
    rowHandlers,   \* running shutdown(signal) calls
    rowExited,     \* process.exit() has been called
    \* ---- object store and compactor (src/unnamed/part_001, src/scripts/consolidate.js)
    objects,       \* the objects of the R2 bucket: [key, recs]
    now,           \* the current UTC date (a day number)
    nextFrag,      \* number of the next fragment the collector uploads
    fragNextId,    \* number of the next record written to a fragment
    cpc,           \* where consolidate() stands
    allFiles,      \* const allFiles = await listAllFiles()
    today,         \* const today = new Date().toISOString().split('T')[0]
    dates,         \* datesToConsolidate, the dates still to do
    files,         \* const files = byDate[date]
    readIdx,       \* position of the download loop in files
    allRecords,    \* const allRecords = []
    uploaded,      \* history: dates whose daily object this run uploaded
    expected,      \* history: per date begun in this run, its listed files and their records
    failedAt,      \* history: the step at which this run threw
    atFirstRun,    \* history: the date at which the first of a series of runs failed,
                   \*          and the rows storage held for it when that run began it
    skipped,       \* history: the files of this run whose download or decode threw
    \* ---- geofence lookup (src/src/segments.js, src/src/db.js)
    segmentsCache, \* let segmentsCache = null                 db.js:165
    geoQuery,      \* the (route, lat, lon) of the last lookup
    geoMem,        \* what findSegment of segments.js returned for it
    geoRow,        \* what findSegment of db.js returned for it
    \* ---- aggregator (src/consolidation/index.js, src/consolidation/schema.sql)
    transit_data,  \* the rows of my_db.transit_data (a bag of records)
    pg,            \* the five rollup tables of the Postgres database
    aggPc,         \* where consolidate() stands
    aggPhase,      \* the numbered step of consolidate() it is in
    pending,       \* the rows of the step's query not yet upserted
    aggClock,      \* CURRENT_TIMESTAMP: the number of the run
    prevOutcome,   \* history: how the previous run ended
    pgAtStart,     \* history: the tables when the first run of a series of failed runs began
    \* ---- feed connection (src/src/index.js connectSSE)
    es,            \* the EventSource objects connectSSE has made, in order
    timers,        \* the pending setTimeout callbacks
    \* ---- startup of the three programs (main of each)
    program,       \* which program the process runs
    env,           \* process.env: the names of the credentials that are set
    runOnce,       \* process.argv.includes('--once')
    bootPc,        \* where main() stands
    work,          \* history: the feed and store operations that have completed
    bootExit,      \* the code of process.exit, -1 while running
    \* ---- the long-lived services (src/consolidation/index.js main, part_003)
    service,       \* which service the process is
    once,          \* process.argv.includes('--once')
    onStart,       \* process.env.CONSOLIDATE_ON_START === 'true'
    svcPc,         \* where the service stands
    runs,          \* the runs started so far: who started each and how it stands
    ending,        \* a signal handler is awaiting pgPool.end()
    svcExit,       \* the code of process.exit, -1 while the process lives
    exitCause,     \* history: what made the process exit
    \* ---- the connection pool of the row store (src/src/db.js)
    checkedOut,    \* the clients of pool that are checked out
    poolCalls,     \* the calls of insertVehiclePositions in progress
    finished       \* history: the ways in which calls have ended

mdVars == <<buffer, stats, inflight, stored, nextId, handlers, dbClosing,
            exited, exitCode, exitedBy, lastFail, unbuffered>>

rowVars == <<BATCH_SIZE, messageBuffer, rowStats, rowCalls, rowStored,
             rowNextId, rowHandlers, rowExited>>

compVars == <<objects, now, nextFrag, fragNextId, cpc, allFiles, today, dates,
              files, readIdx, allRecords, uploaded, expected, failedAt, atFirstRun,
              skipped>>

geoVars == <<segmentsCache, geoQuery, geoMem, geoRow>>

aggVars == <<transit_data, pg, aggPc, aggPhase, pending, aggClock, prevOutcome, pgAtStart>>

\* the variables of the programs added to the three above
feedVars == <<es, timers>>

bootVars == <<program, env, runOnce, bootPc, work, bootExit>>

schedVars == <<service, once, onStart, svcPc, runs, ending, svcExit, exitCause>>

poolVars == <<checkedOut, poolCalls, finished>>

restVars == <<geoVars, aggVars, feedVars, bootVars, schedVars, poolVars>>

\* the variables a program leaves alone
geoOthers == <<mdVars, rowVars, compVars, aggVars, feedVars, bootVars, schedVars, poolVars>>

aggOthers == <<mdVars, rowVars, compVars, geoVars, feedVars, bootVars, schedVars, poolVars>>

vars == <<mdVars, rowVars, compVars, restVars>>

\* ------------------------------------------------------------- helpers
Range(s) == {s[i] : i \in 1..Len(s)}

Ids(s) == {s[i].id : i \in 1..Len(s)}

IsPrefix(p, s) == Len(p) <= Len(s) /\ SubSeq(s, 1, Len(p)) = p

None == [none |-> TRUE]

\* ------------------------------------------------------------- the feed
\* JSON encodings of a coordinate in a feed element: the string '0', the
\* number 0 and a real position.
Encodings == {"str:0", "num:0", "str:29.95"}

\* parseFloat(v.lat) / parseFloat(v.lon), in hundredths of a degree
ParseFloat(e) ==
    CASE e = "str:0"     -> 0
      [] e = "num:0"     -> 0
      [] e = "str:29.95" -> 2995

\* the (lat, lon) pairs the feed sends for one element
CoordChoices ==
    { <<"str:0", "str:0">>, <<"num:0", "num:0">>, <<"str:29.95", "str:29.95">> }

\* the elements of a message array: a vehicle object with its (lat, lon) pair,
\* or the JSON value null, written <<"null", "null">>
ElementChoices == CoordChoices \cup { <<"null", "null">> }

\* the element is null: reading v.lat throws a TypeError
IsNull(v) == v.lat = "null"

\* the result of a call that threw
Thrown == [thrown |-> TRUE]

\* v.lat === '0' && v.lon === '0'   (strict comparison with the string '0')
IsSentinel(v) == v.lat = "str:0" /\ v.lon = "str:0"

\* processVehicle(v): throws for a null element, null for the sentinel, else
\* the record
processVehicle(v) ==
    IF IsNull(v) THEN Thrown
    ELSE IF IsSentinel(v) THEN None
    ELSE [id |-> v.id, lat |-> ParseFloat(v.lat), lon |-> ParseFloat(v.lon)]

\* the for-loop of processMessage: push every non-null record; a throw of
\* processVehicle leaves the loop for the catch of processMessage
RECURSIVE PushAll(_, _)
PushAll(buf, vehicles) ==
    IF vehicles = <<>> THEN buf
    ELSE LET record == processVehicle(Head(vehicles))
         IN  IF record = Thrown THEN buf
             ELSE PushAll(IF record # None THEN Append(buf, record) ELSE buf,
                          Tail(vehicles))

\* the loop over the elements of the message throws
LoopThrows(vehicles) == \E i \in 1..Len(vehicles) : processVehicle(vehicles[i]) = Thrown

\* the ids of the elements of a message that make a record
ValidIds(vehicles) ==
    {vehicles[i].id : i \in {j \in 1..Len(vehicles) :
                                 processVehicle(vehicles[j]) \notin {Thrown, None}}}

\* variant of CatchExits: the catch ends the process
CatchExitsProcess(e) == TRUE

\* the catch blocks of processMessage, uploadBuffer and es.onerror count and
\* log the error: none calls process.exit
CatchExits(e) == e

\* feed messages: arrays of 1..MaxMsgLen elements, numbered from nextId
CoordSeqs == UNION { [1..n -> CoordChoices] : n \in 1..MaxMsgLen }

\* the arrays a message of the collector carries, up to MaxMsgLen elements
ElementSeqs == UNION { [1..n -> ElementChoices] : n \in 1..MaxMsgLen }

Vehicles(cs, first) ==
    [i \in 1..Len(cs) |-> [id |-> first + i - 1, lat |-> cs[i][1], lon |-> cs[i][2]]]

\* ------------------------------------------------------------- MotherDuck sink
\* insertRecords(records): one INSERT is run per record on the prepared
\* statement, then finalize reports the result. The statements are not wrapped
\* in a transaction, so a failure leaves the rows run before it committed.
\* An outcome is the reported result and the number of rows committed.
InsertOutcomes(records) ==
    { [ok |-> TRUE, committed |-> Len(records)] } \cup
    { [ok |-> FALSE, committed |-> k] : k \in 0..(Len(records) - 1) }

\* rows of transit_data after the first n records of a batch were inserted
Committed(rows, records, n) == rows (+) SetToBag(Range(SubSeq(records, 1, n)))

\* ------------------------------------------------------------- uploadBuffer
\* variant of Requeue: the failed snapshot is dropped
RequeueDropped(toInsert, buf) == buf

\* variant of Requeue: the failed snapshot is put behind the newer records
RequeueBehind(toInsert, buf) == buf \o toInsert

\* buffer = [...toInsert, ...buffer]
Requeue(toInsert, buf) == toInsert \o buf

\* variant of ShutdownFlushNeeded: shutdown never flushes
ShutdownFlushNever(buf) == FALSE

\* "if (buffer.length > 0)" of shutdown
ShutdownFlushNeeded(buf) == Len(buf) > 0

\* the flush slot a new uploadBuffer call takes (a model name for the call)
FreeFid == CHOOSE n \in 1..(MaxInflight + MaxSignals) :
               /\ \A f \in inflight : f.fid # n
               /\ \A m \in 1..(n - 1) : \E f \in inflight : f.fid = m

\* uploadBuffer up to its await: toInsert = buffer; buffer = []; the write of
\* toInsert is then pending. owner is 0 for the interval timer, else the
\* shutdown call awaiting it.
StartUpload(owner) ==
    /\ buffer # <<>>
    /\ inflight' = { [f EXCEPT !.overlapped = TRUE] : f \in inflight } \cup
                   { [fid |-> FreeFid, snap |-> buffer, owner |-> owner,
                      arrived |-> <<>>, overlapped |-> inflight # {}] }
    /\ buffer' = <<>>

\* the MotherDuck collector before it runs
MDIdle ==
    /\ buffer = <<>>
    /\ stats = [messagesReceived |-> 0, vehiclesBuffered |-> 0,
                uploadsCompleted |-> 0, errors |-> 0]
    /\ inflight = {}
    /\ stored = EmptyBag
    /\ nextId = 1
    /\ handlers = [h \in 1..MaxSignals |-> [pc |-> "none", saw |-> FALSE, attempts |-> 0, result |-> "none"]]
    /\ dbClosing = FALSE
    /\ exited = FALSE
    /\ exitCode = -1
    /\ exitedBy = 0
    /\ lastFail = None
    /\ unbuffered = {}

\* the row-store collector before it runs
RowIdle ==
    /\ messageBuffer = <<>>
    /\ rowStats = [messagesReceived |-> 0, vehiclesLogged |-> 0, errors |-> 0]
    /\ rowCalls = {}
    /\ rowStored = EmptyBag
    /\ rowNextId = 1
    /\ rowHandlers = [h \in 1..MaxSignals |-> "none"]
    /\ rowExited = FALSE

\* the object store and the compactor before they run
CompIdle ==
    /\ objects = {}
    /\ now = 1
    /\ nextFrag = 1
    /\ fragNextId = 1
    /\ cpc = "idle"
    /\ allFiles = {}
    /\ today = 0
    /\ dates = <<>>
    /\ files = <<>>
    /\ readIdx = 0
    /\ allRecords = <<>>
    /\ uploaded = {}
    /\ expected = {}
    /\ failedAt = "none"
    /\ atFirstRun = None
    /\ skipped = {}

\* the geofence lookup before its first call
GeoIdle ==
    /\ segmentsCache = None
    /\ geoQuery = None
    /\ geoMem = None
    /\ geoRow = None

\* the tables after initPostgres() ran schema.sql on an empty database
EmptyTables ==
    [daily_summary |-> {}, daily_route_performance |-> {},
     daily_segment_performance |-> {}, hourly_segment_performance |-> {},
     segment_summary |-> {}]

\* the aggregator before consolidate() is first called
AggIdle ==
    /\ transit_data = EmptyBag
    /\ pg = EmptyTables
    /\ aggPc = "idle"
    /\ aggPhase = 0
    /\ pending = <<>>
    /\ aggClock = 0
    /\ prevOutcome = "none"
    /\ pgAtStart = EmptyTables

\* the programs added to the three above before they run
\* connectSSE has not been called
FeedIdle ==
    /\ es = <<>>
    /\ timers = <<>>

\* no process has been started
BootIdle ==
    /\ program = "none"
    /\ env = {}
    /\ runOnce = FALSE
    /\ bootPc = "idle"
    /\ work = {}
    /\ bootExit = -1

\* no service has been started
SchedIdle ==
    /\ service = "none"
    /\ once = FALSE
    /\ onStart = FALSE
    /\ svcPc = "idle"
    /\ runs = <<>>
    /\ ending = FALSE
    /\ svcExit = -1
    /\ exitCause = "none"

\* no call of insertVehiclePositions has been made
PoolIdle ==
    /\ checkedOut = 0
    /\ poolCalls = {}
    /\ finished = {}

RestIdle == GeoIdle /\ AggIdle /\ FeedIdle /\ BootIdle /\ SchedIdle /\ PoolIdle

\* state after main() of index.js has initialised MotherDuck and installed the
\* feed connection, the interval timer and the signal handlers
MDInit ==
    /\ MDIdle
    /\ RowIdle
    /\ CompIdle
    /\ RestIdle
    /\ BATCH_SIZE = 1

\* es.onmessage -> processMessage(data), data a well-formed array
ProcessMessage ==
    /\ ~exited
    /\ UNCHANGED <<rowVars, compVars, restVars>>
    /\ \E cs \in ElementSeqs :
          /\ nextId + Len(cs) - 1 <= MaxRecords
          /\ LET vehicles == Vehicles(cs, nextId)
                 pushed   == PushAll(<<>>, vehicles)
             IN  /\ buffer' = PushAll(buffer, vehicles)
                 /\ inflight' = { [f EXCEPT !.arrived = @ \o pushed] : f \in inflight }
                 /\ nextId' = nextId + Len(cs)
                 /\ unbuffered' = unbuffered \cup (ValidIds(vehicles) \ Ids(pushed))
                 /\ IF LoopThrows(vehicles)
                    THEN /\ stats.errors < MaxErrors
                         /\ stats' = [stats EXCEPT !.messagesReceived = @ + 1,
                                                   !.errors = @ + 1]
                         /\ exited' = CatchExits(exited)
                    ELSE /\ stats' = [stats EXCEPT !.messagesReceived = @ + 1]
                         /\ UNCHANGED exited
    /\ UNCHANGED <<stored, handlers, dbClosing, exitCode, exitedBy, lastFail>>

\* processMessage(data) when JSON.parse throws
ProcessMalformed ==
    /\ ~exited
    /\ UNCHANGED <<rowVars, compVars, restVars>>
    /\ stats.errors < MaxErrors
    /\ stats' = [stats EXCEPT !.errors = @ + 1]
    /\ exited' = CatchExits(exited)
    /\ UNCHANGED <<buffer, inflight, stored, nextId, handlers, dbClosing,
                   exitCode, exitedBy, lastFail, unbuffered>>

\* es.onerror fires: the error is counted and logged
TransportError ==
    /\ ~exited
    /\ UNCHANGED <<rowVars, compVars, restVars>>
    /\ stats.errors < MaxErrors
    /\ stats' = [stats EXCEPT !.errors = @ + 1]
    /\ exited' = CatchExits(exited)
    /\ UNCHANGED <<buffer, inflight, stored, nextId, handlers, dbClosing,
                   exitCode, exitedBy, lastFail, unbuffered>>

\* setInterval(uploadBuffer, UPLOAD_INTERVAL) fires
TimerUpload ==
    /\ ~exited
    /\ UNCHANGED <<rowVars, compVars, restVars>>
    /\ Cardinality({f \in inflight : f.owner = 0}) < MaxInflight
    /\ StartUpload(0)
    /\ UNCHANGED <<stats, stored, nextId, handlers, dbClosing, exited,
                   exitCode, exitedBy, lastFail>>
    /\ UNCHANGED unbuffered

\* the shutdown call that awaited flush f goes on to closeMotherDuck()
AfterUpload(f, result) ==
    IF f.owner = 0
    THEN UNCHANGED <<handlers, dbClosing>>
    ELSE /\ handlers' = [handlers EXCEPT ![f.owner].pc = "closing",
                                         ![f.owner].result = result]
         /\ dbClosing' = TRUE

\* "await insertRecords(toInsert)" resolves
UploadSucceeds ==
    /\ ~exited
    /\ UNCHANGED <<rowVars, compVars, restVars>>
    /\ \E f \in inflight :
          /\ inflight' = inflight \ {f}
          /\ stored' = Committed(stored, f.snap, Len(f.snap))
          /\ stats' = [stats EXCEPT !.uploadsCompleted = @ + 1,
                                    !.vehiclesBuffered = @ + Len(f.snap)]
          /\ AfterUpload(f, "ok")
    /\ UNCHANGED <<buffer, nextId, exited, exitCode, exitedBy, lastFail>>
    /\ UNCHANGED unbuffered

\* "await insertRecords(toInsert)" rejects: the catch block
UploadFails ==
    /\ ~exited
    /\ UNCHANGED <<rowVars, compVars, restVars>>
    /\ stats.errors < MaxErrors
    /\ \E f \in inflight : \E out \in InsertOutcomes(f.snap) :
          /\ ~out.ok
          /\ inflight' = inflight \ {f}
          /\ stored' = Committed(stored, f.snap, out.committed)
          /\ buffer' = Requeue(f.snap, buffer)
          /\ lastFail' = [snap |-> f.snap, arrived |-> f.arrived,
                          overlapped |-> f.overlapped, after |-> buffer']
          /\ AfterUpload(f, "failed")
    /\ stats' = [stats EXCEPT !.errors = @ + 1]
    /\ exited' = CatchExits(exited)
    /\ UNCHANGED <<nextId, exitCode, exitedBy, unbuffered>>

\* process.on('SIGTERM' | 'SIGINT') -> shutdown(signal), up to its first await
Shutdown ==
    /\ ~exited
    /\ UNCHANGED <<rowVars, compVars, restVars>>
    /\ \E h \in 1..MaxSignals :
          /\ handlers[h].pc = "none"
          /\ \A g \in 1..(h - 1) : handlers[g].pc # "none"
          /\ IF ShutdownFlushNeeded(buffer)
             THEN /\ StartUpload(h)
                  /\ handlers' = [handlers EXCEPT ![h].pc = "flushing",
                                     ![h].saw = Len(buffer) > 0,
                                     ![h].attempts = @ + 1]
                  /\ UNCHANGED dbClosing
             ELSE /\ handlers' = [handlers EXCEPT ![h].pc = "closing",
                                     ![h].saw = Len(buffer) > 0]
                  /\ dbClosing' = TRUE
                  /\ UNCHANGED <<buffer, inflight>>
    /\ UNCHANGED <<stats, stored, nextId, exited, exitCode, exitedBy, lastFail>>
    /\ UNCHANGED unbuffered

\* "await closeMotherDuck()" resolves: logStats(); process.exit(0)
ShutdownExit ==
    /\ ~exited
    /\ UNCHANGED <<rowVars, compVars, restVars>>
    /\ \E h \in 1..MaxSignals :
          /\ handlers[h].pc = "closing"
          /\ exitedBy' = h
    /\ exited' = TRUE
    /\ exitCode' = 0
    /\ UNCHANGED <<buffer, stats, inflight, stored, nextId, handlers, dbClosing, lastFail>>
    /\ UNCHANGED unbuffered

MDNext ==
    \/ ProcessMessage
    \/ ProcessMalformed
    \/ TransportError
    \/ TimerUpload
    \/ UploadSucceeds
    \/ UploadFails
    \/ Shutdown
    \/ ShutdownExit

SpecMD == MDInit /\ [][MDNext]_vars

\* The collector while no termination signal arrives. The interval timer keeps
\* firing (setInterval, index.js:152) and the sink keeps answering and accepts a
\* write again and again.
MDLiveNext ==
    \/ ProcessMessage
    \/ ProcessMalformed
    \/ TransportError
    \/ TimerUpload
    \/ UploadSucceeds
    \/ UploadFails

LiveMD ==
    /\ MDInit
    /\ [][MDLiveNext]_vars
    /\ WF_vars(TimerUpload)
    /\ SF_vars(UploadSucceeds)

\* ------------------------------------------------------------- connectSSE
\* The feed connection of the collector: connectSSE makes an EventSource, whose
\* readyState the library moves between CONNECTING, OPEN and CLOSED; the
\* handlers of the collector run on its events.

RECONNECT_DELAY == 5000

\* const es = new EventSource(SSE_URL)
NewEventSource == [readyState |-> "CONNECTING"]

\* setTimeout(connectSSE, RECONNECT_DELAY)
ReconnectTimer == [callback |-> "connectSSE", delay |-> RECONNECT_DELAY]

\* the readyState the library leaves on the object when it fires the error
\* event: CONNECTING when it goes on to reconnect by itself, CLOSED when it
\* gives the connection up
ErrorStates == {"CONNECTING", "CLOSED"}

\* main() has called connectSSE()
FeedInit ==
    /\ MDIdle
    /\ RowIdle
    /\ CompIdle
    /\ BATCH_SIZE = 1
    /\ GeoIdle
    /\ AggIdle
    /\ es = <<NewEventSource>>
    /\ timers = <<>>
    /\ BootIdle
    /\ SchedIdle
    /\ PoolIdle

\* es.onopen: the connection is established
EsOpen ==
    /\ UNCHANGED <<mdVars, rowVars, compVars, geoVars, aggVars, bootVars, schedVars, poolVars>>
    /\ \E i \in DOMAIN es :
          /\ es[i].readyState = "CONNECTING"
          /\ es' = [es EXCEPT ![i].readyState = "OPEN"]
    /\ UNCHANGED timers

\* es.onmessage: an open connection delivers a message to processMessage
EsMessage ==
    /\ \E i \in DOMAIN es : es[i].readyState = "OPEN"
    /\ ProcessMessage

\* variant of ShouldReconnect: every error event schedules a reconnect
ShouldReconnectAlways(readyState) == TRUE

\* if (es.readyState === EventSource.CLOSED)
ShouldReconnect(readyState) == readyState = "CLOSED"

\* es.onerror: the error is counted; only an object the library left CLOSED is
\* closed and replaced after RECONNECT_DELAY
EsError ==
    /\ UNCHANGED <<rowVars, compVars, geoVars, aggVars, bootVars, schedVars, poolVars>>
    /\ stats.errors < MaxErrors
    /\ stats' = [stats EXCEPT !.errors = @ + 1]
    /\ exited' = CatchExits(exited)
    /\ \E i \in DOMAIN es, rs \in ErrorStates :
          /\ es[i].readyState \in {"CONNECTING", "OPEN"}
          /\ es' = [es EXCEPT ![i].readyState = rs]
          /\ timers' = IF ShouldReconnect(rs) THEN Append(timers, ReconnectTimer)
                                               ELSE timers
    /\ UNCHANGED <<buffer, inflight, stored, nextId, handlers, dbClosing,
                   exitCode, exitedBy, lastFail, unbuffered>>

\* the reconnect timer fires: connectSSE()
TimerFires ==
    /\ UNCHANGED <<mdVars, rowVars, compVars, geoVars, aggVars, bootVars, schedVars, poolVars>>
    /\ timers # <<>>
    /\ Head(timers).callback = "connectSSE"
    /\ timers' = Tail(timers)
    /\ es' = Append(es, NewEventSource)

FeedNext ==
    \/ EsOpen
    \/ EsMessage
    \/ EsError
    \/ TimerFires

SpecFeed == FeedInit /\ [][FeedNext]_vars

\* a pending timer of the event loop fires
LiveFeed ==
    /\ FeedInit
    /\ [][FeedNext]_vars
    /\ WF_vars(TimerFires)

\* ------------------------------------------------------------- row-store collector
\* configured batch sizes: the default (one insert per message) and a batch
BatchSizes == {1, 2}

\* one row of the multi-row INSERT of insertVehiclePositions
RowOf(v) == [id |-> v.id, lat |-> ParseFloat(v.lat), lon |-> ParseFloat(v.lon)]

\* the for-loop of insertVehiclePositions: the rows of the vehicles that are
\* not the '0'/'0' sentinel
InsertValues(vehicles) ==
    LET kept == SelectSeq(vehicles, LAMBDA v : ~IsSentinel(v))
    IN  [i \in 1..Len(kept) |-> RowOf(kept[i])]

\* the array a call of insertVehiclePositions was given: messageBuffer itself
\* (by reference) while the call is live, else the array it holds
ArgOf(c) == IF c.live THEN messageBuffer ELSE c.vehicles

FreeCid == CHOOSE n \in 1..(MaxInflight + MaxSignals) :
               /\ \A c \in rowCalls : c.cid # n
               /\ \A m \in 1..(n - 1) : \E c \in rowCalls : c.cid = m

\* insertVehiclePositions(vehicles) up to "await pool.connect()"
NewCall(kind, live, vehicles, h) ==
    [cid |-> FreeCid, kind |-> kind, live |-> live, vehicles |-> vehicles,
     stage |-> "connect", values |-> <<>>, handler |-> h]

MessageCalls == {c \in rowCalls : c.kind # "shutdown"}

\* state after main() of the row-store collector has initialised the database
RowInit ==
    /\ MDIdle
    /\ RowIdle
    /\ CompIdle
    /\ RestIdle
    /\ BATCH_SIZE \in BatchSizes

\* processMessage(data) with BATCH_SIZE <= 1: insertVehiclePositions(vehicles)
RowMessageSingle ==
    /\ ~rowExited
    /\ UNCHANGED <<mdVars, compVars, restVars>>
    /\ BATCH_SIZE <= 1
    /\ Cardinality(MessageCalls) < MaxInflight
    /\ \E cs \in CoordSeqs :
          /\ rowNextId + Len(cs) - 1 <= MaxRowRecords
          /\ rowCalls' = rowCalls \cup
                 {NewCall("single", FALSE, Vehicles(cs, rowNextId), 0)}
          /\ rowNextId' = rowNextId + Len(cs)
    /\ rowStats' = [rowStats EXCEPT !.messagesReceived = @ + 1]
    /\ UNCHANGED <<BATCH_SIZE, messageBuffer, rowStored, rowHandlers, rowExited>>

\* processMessage(data) with BATCH_SIZE > 1: push, and insert messageBuffer once
\* it holds BATCH_SIZE vehicles
RowMessageBatch ==
    /\ ~rowExited
    /\ UNCHANGED <<mdVars, compVars, restVars>>
    /\ BATCH_SIZE > 1
    /\ \E cs \in CoordSeqs :
          /\ rowNextId + Len(cs) - 1 <= MaxRowRecords
          /\ messageBuffer' = messageBuffer \o Vehicles(cs, rowNextId)
          /\ rowNextId' = rowNextId + Len(cs)
          /\ IF Len(messageBuffer') >= BATCH_SIZE
             THEN /\ Cardinality(MessageCalls) < MaxInflight
                  /\ rowCalls' = rowCalls \cup {NewCall("batch", TRUE, <<>>, 0)}
             ELSE UNCHANGED rowCalls
    /\ rowStats' = [rowStats EXCEPT !.messagesReceived = @ + 1]
    /\ UNCHANGED <<BATCH_SIZE, rowStored, rowHandlers, rowExited>>

\* processMessage(data) when JSON.parse throws
RowMalformed ==
    /\ ~rowExited
    /\ UNCHANGED <<mdVars, compVars, restVars>>
    /\ rowStats.errors < MaxErrors
    /\ rowStats' = [rowStats EXCEPT !.errors = @ + 1]
    /\ UNCHANGED <<BATCH_SIZE, messageBuffer, rowCalls, rowStored, rowNextId,
                   rowHandlers, rowExited>>

\* the code after "await insertVehiclePositions(...)" of the caller of c, and its
\* catch block
Settle(c, ok) ==
    LET rest == rowCalls \ {c} IN
    CASE c.kind = "single" ->
            /\ rowStats' = IF ok
                  THEN [rowStats EXCEPT !.vehiclesLogged = @ + Len(c.vehicles)]
                  ELSE [rowStats EXCEPT !.errors = @ + 1]
            /\ rowCalls' = rest
            /\ UNCHANGED <<messageBuffer, rowHandlers>>
      [] c.kind = "batch" ->
            IF ok
            THEN /\ rowStats' = [rowStats EXCEPT
                                    !.vehiclesLogged = @ + Len(messageBuffer)]
                 /\ messageBuffer' = <<>>
                 /\ rowCalls' = { IF d.live
                                  THEN [d EXCEPT !.live = FALSE,
                                                 !.vehicles = messageBuffer]
                                  ELSE d : d \in rest }
                 /\ UNCHANGED rowHandlers
            ELSE /\ rowStats' = [rowStats EXCEPT !.errors = @ + 1]
                 /\ rowCalls' = rest
                 /\ UNCHANGED <<messageBuffer, rowHandlers>>
      [] c.kind = "shutdown" ->
            /\ rowHandlers' = [rowHandlers EXCEPT ![c.handler] = "ending"]
            /\ rowCalls' = rest
            /\ UNCHANGED <<messageBuffer, rowStats>>

\* "await pool.connect()" and loadSegments resolve: the rows are built from the
\* array as it is now; with no row left the call returns, else the INSERT is sent
RowConnected ==
    /\ ~rowExited
    /\ UNCHANGED <<mdVars, compVars, restVars>>
    /\ \E c \in rowCalls :
          /\ c.stage = "connect"
          /\ LET values == InsertValues(ArgOf(c)) IN
             IF values = <<>>
             THEN Settle(c, TRUE)
             ELSE /\ rowCalls' = (rowCalls \ {c}) \cup
                        {[c EXCEPT !.stage = "query", !.values = values]}
                  /\ UNCHANGED <<messageBuffer, rowStats, rowHandlers>>
    /\ UNCHANGED <<BATCH_SIZE, rowStored, rowNextId, rowExited>>

\* "await client.query(query, values)" resolves: every row is inserted
RowQueryOk ==
    /\ ~rowExited
    /\ UNCHANGED <<mdVars, compVars, restVars>>
    /\ \E c \in rowCalls :
          /\ c.stage = "query"
          /\ rowStored' = rowStored (+) SetToBag(Range(c.values))
          /\ Settle(c, TRUE)
    /\ UNCHANGED <<BATCH_SIZE, rowNextId, rowExited>>

\* pool.connect(), loadSegments or client.query rejects: no row is inserted
RowInsertFails ==
    /\ ~rowExited
    /\ UNCHANGED <<mdVars, compVars, restVars>>
    /\ rowStats.errors < MaxErrors
    /\ \E c \in rowCalls : Settle(c, FALSE)
    /\ UNCHANGED <<BATCH_SIZE, rowStored, rowNextId, rowExited>>

\* shutdown(signal) of the row-store collector up to its first await
RowShutdown ==
    /\ ~rowExited
    /\ UNCHANGED <<mdVars, compVars, restVars>>
    /\ \E h \in 1..MaxSignals :
          /\ rowHandlers[h] = "none"
          /\ \A g \in 1..(h - 1) : rowHandlers[g] # "none"
          /\ IF Len(messageBuffer) > 0
             THEN /\ rowCalls' = rowCalls \cup {NewCall("shutdown", TRUE, <<>>, h)}
                  /\ rowHandlers' = [rowHandlers EXCEPT ![h] = "flushing"]
             ELSE /\ rowHandlers' = [rowHandlers EXCEPT ![h] = "ending"]
                  /\ UNCHANGED rowCalls
    /\ UNCHANGED <<BATCH_SIZE, messageBuffer, rowStats, rowStored, rowNextId, rowExited>>

\* "await pool.end()" resolves once no client is checked out: process.exit(0)
RowShutdownExit ==
    /\ ~rowExited
    /\ UNCHANGED <<mdVars, compVars, restVars>>
    /\ \E h \in 1..MaxSignals : rowHandlers[h] = "ending"
    /\ \A c \in rowCalls : c.stage # "query"
    /\ rowExited' = TRUE
    /\ UNCHANGED <<BATCH_SIZE, messageBuffer, rowStats, rowCalls, rowStored,
                   rowNextId, rowHandlers>>

RowNext ==
    \/ RowMessageSingle
    \/ RowMessageBatch
    \/ RowMalformed
    \/ RowConnected
    \/ RowQueryOk
    \/ RowInsertFails
    \/ RowShutdown
    \/ RowShutdownExit

SpecRow == RowInit /\ [][RowNext]_vars

\* ------------------------------------------------------------- object store
\* keys: raw fragments  YYYY/MM/transit-<date>T<time>Z.parquet  (date, n-th upload)
\*       daily objects  daily/<date>.parquet
RawKey(d, n) == [kind |-> "raw", date |-> d, n |-> n]

DailyKey(d) == [kind |-> "daily", date |-> d, n |-> 0]

Keys(objs) == {o.key : o \in objs}

RecsOf(objs, k) == (CHOOSE o \in objs : o.key = k).recs

\* PutObject: the object under the key is created or replaced
PutObject(objs, k, recs) == {o \in objs : o.key # k} \cup {[key |-> k, recs |-> recs]}

\* the batches the collector uploads: the event timestamps of the records of
\* one fragment, in the order the records were buffered
FragmentShapes == {<<2>>, <<2, 1>>}

RECURSIVE SeqToBag(_)
SeqToBag(s) == IF s = <<>> THEN EmptyBag ELSE SetToBag({Head(s)}) (+) SeqToBag(Tail(s))

RECURSIVE SortedSeq(_)
SortedSeq(S) ==
    IF S = {} THEN <<>>
    ELSE LET m == CHOOSE x \in S : \A y \in S : x <= y
         IN  <<m>> \o SortedSeq(S \ {m})

\* writeParquetToR2(records): the batch becomes one object named after the
\* time of the upload; the record carries the columns of the collector's schema
FragmentRecs(tss, first) ==
    [i \in 1..Len(tss) |-> [id |-> first + i - 1, ts |-> tss[i], trip_id |-> "trip"]]

\* ------------------------------------------------------------- consolidate.js
\* allFiles.filter(f => f.match(/transit-\d{4}-\d{2}-\d{2}T/))
HourlyFiles(all) == {k \in all : k.kind = "raw"}

\* getDateFromFilename(filename): the date in the name, 0 for no match
getDateFromFilename(k) == IF k.kind = "raw" THEN k.date ELSE 0

\* byDate[date], in listing order
ByDate(all, date) ==
    LET ns == {k.n : k \in {h \in HourlyFiles(all) : getDateFromFilename(h) = date}}
        ord == SortedSeq(ns)
    IN  [i \in 1..Len(ord) |-> RawKey(date, ord[i])]

\* variant of DatesToConsolidate: today is not skipped
DatesToConsolidateWithToday(all, day) ==
    SortedSeq({d \in {getDateFromFilename(k) : k \in HourlyFiles(all)} :
                  d # 0 /\ Len(ByDate(all, d)) > 1})

\* variant of DatesToConsolidate: a date with one fragment is consolidated too
DatesToConsolidateSingle(all, day) ==
    SortedSeq({d \in {getDateFromFilename(k) : k \in HourlyFiles(all)} :
                  d # 0 /\ d # day /\ Len(ByDate(all, d)) > 0})

\* Object.keys(byDate).filter(date => date !== today && byDate[date].length > 1).sort()
DatesToConsolidate(all, day) ==
    SortedSeq({d \in {getDateFromFilename(k) : k \in HourlyFiles(all)} :
                  d # 0 /\ d # day /\ Len(ByDate(all, d)) > 1})

\* variant of SortByTimestamp: the records are written as they were read
SortSkipped(recs) == recs

\* allRecords.sort((a, b) => new Date(a.timestamp) - new Date(b.timestamp)), stable
InsertByTimestamp(sorted, r) ==
    LET k == Cardinality({i \in 1..Len(sorted) : sorted[i].ts <= r.ts})
    IN  SubSeq(sorted, 1, k) \o <<r>> \o SubSeq(sorted, k + 1, Len(sorted))

RECURSIVE SortFrom(_, _)
SortFrom(sorted, rest) ==
    IF rest = <<>> THEN sorted
    ELSE SortFrom(InsertByTimestamp(sorted, Head(rest)), Tail(rest))

SortByTimestamp(recs) == SortFrom(<<>>, recs)

\* writeParquetFile(records, outputPath): a row keeps the columns of the
\* consolidation schema (consolidate.js:24-36), which has no trip_id,
\* destination or is_off_route
SchemaRow(r) == [id |-> r.id, ts |-> r.ts]

WriteParquet(recs) == [i \in 1..Len(recs) |-> SchemaRow(recs[i])]

\* the records of the listed files of a date, as rows of the consolidation schema
RECURSIVE RowsOfFiles(_, _)
RowsOfFiles(objs, fs) ==
    IF fs = <<>> THEN <<>>
    ELSE WriteParquet(RecsOf(objs, Head(fs))) \o RowsOfFiles(objs, Tail(fs))

\* the rows (consolidation schema) of every stored object of a date
RECURSIVE RowsOfObjects(_)
RowsOfObjects(objs) ==
    IF objs = {} THEN EmptyBag
    ELSE LET o == CHOOSE x \in objs : TRUE
         IN  SeqToBag(WriteParquet(o.recs)) (+) RowsOfObjects(objs \ {o})

StorageRows(d) == RowsOfObjects({o \in objects : o.key.date = d})

\* read_parquet('s3://<bucket>/**/*.parquet'): a reader takes the rows of every
\* stored object, raw fragments and daily objects alike
ReadParquetAll(objs) == RowsOfObjects(objs)

\* variant of UploadFailurePc: the error of the upload is swallowed
UploadFailureIgnored == "delete"

\* writeParquetFile or uploadFile throws: consolidate() rejects, the run ends
UploadFailurePc == "failed"

\* a file read has failed: the series of runs is followed no further
Untracked == [untracked |-> TRUE]

\* the run fails at the date it is at: the first failure of a series is kept
FirstFailure ==
    IF atFirstRun # None THEN atFirstRun
    ELSE LET e == CHOOSE x \in expected : x.date = Head(dates)
         IN  [date |-> e.date, held |-> e.held]

\* state of the object store and compactor when the processes start
CompInit ==
    /\ MDIdle
    /\ RowIdle
    /\ CompIdle
    /\ RestIdle
    /\ BATCH_SIZE = 1

\* the clock passes midnight UTC
Tick ==
    /\ UNCHANGED <<mdVars, rowVars, restVars>>
    /\ now < MaxDay
    /\ now' = now + 1
    /\ UNCHANGED <<objects, nextFrag, fragNextId, cpc, allFiles, today, dates,
                   files, readIdx, allRecords, uploaded, expected, failedAt>>
    /\ UNCHANGED <<atFirstRun, skipped>>

\* the collector's writeParquetToR2(records) uploads one fragment
WriteFragment ==
    /\ UNCHANGED <<mdVars, rowVars, restVars>>
    /\ nextFrag <= MaxFragments
    /\ \E tss \in FragmentShapes :
          /\ objects' = PutObject(objects, RawKey(now, nextFrag),
                                  FragmentRecs(tss, fragNextId))
          /\ fragNextId' = fragNextId + Len(tss)
    /\ nextFrag' = nextFrag + 1
    /\ UNCHANGED <<now, cpc, allFiles, today, dates, files, readIdx, allRecords,
                   uploaded, expected, failedAt>>
    /\ UNCHANGED <<atFirstRun, skipped>>

\* the for-loop over datesToConsolidate reaches its next date, or ends
BeginDate(ds) ==
    IF ds = <<>>
    THEN /\ cpc' = "done"
         /\ dates' = <<>>
         /\ files' = <<>>
         /\ readIdx' = 0
         /\ allRecords' = <<>>
         /\ UNCHANGED expected
    ELSE /\ cpc' = "read"
         /\ dates' = ds
         /\ files' = ByDate(allFiles, Head(ds))
         /\ readIdx' = 1
         /\ allRecords' = <<>>
         /\ expected' = expected \cup
                {[date |-> Head(ds), files |-> Range(ByDate(allFiles, Head(ds))),
                  rows |-> SeqToBag(RowsOfFiles(objects, ByDate(allFiles, Head(ds)))),
                  held |-> StorageRows(Head(ds))]}

\* consolidate(): const allFiles = await listAllFiles()
ListFiles ==
    /\ UNCHANGED <<mdVars, rowVars, restVars>>
    /\ cpc = "idle"
    /\ allFiles' = Keys(objects)
    /\ cpc' = IF HourlyFiles(allFiles') = {} THEN "done" ELSE "listed"
    /\ UNCHANGED <<objects, now, nextFrag, fragNextId, today, dates, files,
                   readIdx, allRecords, uploaded, expected, failedAt>>
    /\ UNCHANGED <<atFirstRun, skipped>>

\* consolidate(): group by date, take today, filter and sort the dates
PlanDates ==
    /\ UNCHANGED <<mdVars, rowVars, restVars>>
    /\ cpc = "listed"
    /\ today' = now
    /\ UNCHANGED allFiles
    /\ BeginDate(DatesToConsolidate(allFiles, now))
    /\ UNCHANGED <<objects, now, nextFrag, fragNextId, uploaded, failedAt>>
    /\ UNCHANGED <<atFirstRun, skipped>>

\* variant of KeptAfterFailure: a failed read discards what was read before it
DroppedAfterFailure(recs) == <<>>

\* the catch of the download loop only logs: allRecords keeps what the
\* earlier files of the date gave
KeptAfterFailure(recs) == recs

\* variant of NothingToWrite: a date is written whatever was read
NothingToWriteNever(recs) == FALSE

\* if (allRecords.length === 0) { ...; continue; }
NothingToWrite(recs) == recs = <<>>

\* the download loop is over: skip the date with no record, else sort and go on
\* to write and upload the daily file
AfterRead(recs) ==
    IF readIdx < Len(files)
    THEN /\ readIdx' = readIdx + 1
         /\ allRecords' = recs
         /\ UNCHANGED <<cpc, dates, files, expected>>
    ELSE IF NothingToWrite(recs)
         THEN BeginDate(Tail(dates))
         ELSE /\ cpc' = "upload"
              /\ allRecords' = SortByTimestamp(recs)
              /\ readIdx' = 0
              /\ UNCHANGED <<dates, files, expected>>

\* downloadFile + readParquetFile of one file succeed
ReadFile ==
    /\ UNCHANGED <<mdVars, rowVars, restVars>>
    /\ cpc = "read"
    /\ AfterRead(allRecords \o RecsOf(objects, files[readIdx]))
    /\ UNCHANGED <<objects, now, nextFrag, fragNextId, allFiles, today, uploaded, failedAt>>
    /\ UNCHANGED <<atFirstRun, skipped>>

\* downloadFile or readParquetFile of one file throws: the catch logs and goes on
ReadFileFails ==
    /\ UNCHANGED <<mdVars, rowVars, restVars>>
    /\ cpc = "read"
    /\ AfterRead(KeptAfterFailure(allRecords))
    /\ skipped' = skipped \cup {files[readIdx]}
    /\ UNCHANGED <<objects, now, nextFrag, fragNextId, allFiles, today, uploaded, failedAt>>
    /\ atFirstRun' = Untracked

\* writeParquetFile and uploadFile(outputPath, `daily/${date}.parquet`) succeed
UploadDaily ==
    /\ UNCHANGED <<mdVars, rowVars, restVars>>
    /\ cpc = "upload"
    /\ objects' = PutObject(objects, DailyKey(Head(dates)), WriteParquet(allRecords))
    /\ uploaded' = uploaded \cup {Head(dates)}
    /\ cpc' = "delete"
    /\ UNCHANGED <<now, nextFrag, fragNextId, allFiles, today, dates, files,
                   readIdx, allRecords, expected, failedAt>>
    /\ UNCHANGED <<atFirstRun, skipped>>

\* writeParquetFile or uploadFile throws
UploadDailyFails ==
    /\ UNCHANGED <<mdVars, rowVars, restVars>>
    /\ cpc = "upload"
    /\ cpc' = UploadFailurePc
    /\ failedAt' = "upload"
    /\ UNCHANGED <<objects, now, nextFrag, fragNextId, allFiles, today, dates,
                   files, readIdx, allRecords, uploaded, expected>>
    /\ atFirstRun' = FirstFailure
    /\ UNCHANGED skipped

\* deleteFiles(files) succeeds: the listed files of the date are gone
DeleteOriginals ==
    /\ UNCHANGED <<mdVars, rowVars, restVars>>
    /\ cpc = "delete"
    /\ objects' = {o \in objects : o.key \notin Range(files)}
    /\ UNCHANGED allFiles
    /\ BeginDate(Tail(dates))
    /\ UNCHANGED <<now, nextFrag, fragNextId, today, uploaded, failedAt>>
    /\ UNCHANGED <<atFirstRun, skipped>>

\* deleteFiles(files) throws
DeleteOriginalsFails ==
    /\ UNCHANGED <<mdVars, rowVars, restVars>>
    /\ cpc = "delete"
    /\ cpc' = "failed"
    /\ failedAt' = "delete"
    /\ UNCHANGED <<objects, now, nextFrag, fragNextId, allFiles, today, dates,
                   files, readIdx, allRecords, uploaded, expected>>
    /\ atFirstRun' = FirstFailure
    /\ UNCHANGED skipped

\* deleteFiles(files) ends part-way: a DeleteObjects request is not atomic and
\* the keys go in requests of 1000, so the run can end (a request throws, or the
\* process dies) with the first keys of the date removed and the others stored
DeleteOriginalsPartial ==
    /\ UNCHANGED <<mdVars, rowVars, restVars>>
    /\ cpc = "delete"
    /\ \E k \in 1..(Len(files) - 1) :
          objects' = {o \in objects : o.key \notin Range(SubSeq(files, 1, k))}
    /\ cpc' = "failed"
    /\ failedAt' = "partial"
    /\ atFirstRun' = FirstFailure
    /\ UNCHANGED skipped
    /\ UNCHANGED <<now, nextFrag, fragNextId, allFiles, today, dates, files,
                   readIdx, allRecords, uploaded, expected>>

\* the process has ended; the scheduler's next run starts a new one
NextRun ==
    /\ UNCHANGED <<mdVars, rowVars, restVars>>
    /\ cpc \in {"done", "failed"}
    /\ cpc' = "idle"
    /\ allFiles' = {}
    /\ today' = 0
    /\ dates' = <<>>
    /\ files' = <<>>
    /\ readIdx' = 0
    /\ allRecords' = <<>>
    /\ uploaded' = {}
    /\ expected' = {}
    /\ failedAt' = "none"
    /\ atFirstRun' = IF cpc = "failed" THEN atFirstRun ELSE None
    /\ skipped' = {}
    /\ UNCHANGED <<objects, now, nextFrag, fragNextId>>

CompNext ==
    \/ Tick
    \/ WriteFragment
    \/ ListFiles
    \/ PlanDates
    \/ ReadFile
    \/ ReadFileFails
    \/ UploadDaily
    \/ UploadDailyFails
    \/ DeleteOriginals
    \/ DeleteOriginalsFails
    \/ DeleteOriginalsPartial
    \/ NextRun

SpecCompact == CompInit /\ [][CompNext]_vars

\* ------------------------------------------------------------- geofence
\* SEGMENTS of segments.js; a coordinate is a number of 0.0001 degrees
SEGMENTS == <<
    [id |-> 1, route |-> "12", name |-> "Canal Street (CBD)", type |-> "mixed_traffic",
     min_lat |-> 299495, max_lat |-> 299650, min_lon |-> -900800, max_lon |-> -900650, order |-> 1],
    [id |-> 2, route |-> "12", name |-> "Lee Circle / Downtown", type |-> "mixed_traffic",
     min_lat |-> 299430, max_lat |-> 299495, min_lon |-> -900820, max_lon |-> -900700, order |-> 2],
    [id |-> 3, route |-> "12", name |-> "St. Charles - Lower Garden District", type |-> "dedicated_row",
     min_lat |-> 299250, max_lat |-> 299430, min_lon |-> -900900, max_lon |-> -900750, order |-> 3],
    [id |-> 4, route |-> "12", name |-> "St. Charles - Garden District", type |-> "dedicated_row",
     min_lat |-> 299150, max_lat |-> 299250, min_lon |-> -901050, max_lon |-> -900900, order |-> 4],
    [id |-> 5, route |-> "12", name |-> "St. Charles - Uptown", type |-> "dedicated_row",
     min_lat |-> 299150, max_lat |-> 299350, min_lon |-> -901300, max_lon |-> -901050, order |-> 5],
    [id |-> 6, route |-> "12", name |-> "Carrollton - Riverbend", type |-> "dedicated_row",
     min_lat |-> 299350, max_lat |-> 299550, min_lon |-> -901400, max_lon |-> -901250, order |-> 6],
    [id |-> 7, route |-> "12", name |-> "S. Carrollton Ave", type |-> "dedicated_row",
     min_lat |-> 299550, max_lat |-> 299750, min_lon |-> -901350, max_lon |-> -901200, order |-> 7] >>

\* lat >= seg.min_lat && lat <= seg.max_lat && lon >= seg.min_lon && lon <= seg.max_lon
InBox(seg, lat, lon) ==
    /\ lat >= seg.min_lat
    /\ lat <= seg.max_lat
    /\ lon >= seg.min_lon
    /\ lon <= seg.max_lon

\* for (const seg of segments): the first segment of the route whose box holds
\* the point, None when the loop ends without one
RECURSIVE FirstMatch(_, _, _, _)
FirstMatch(segs, route, lat, lon) ==
    IF segs = <<>> THEN None
    ELSE IF Head(segs).route = route /\ InBox(Head(segs), lat, lon) THEN Head(segs)
    ELSE FirstMatch(Tail(segs), route, lat, lon)

\* the result of a lookup that found no segment (null fields)
NoSegment == [segment_id |-> 0, segment_name |-> "null", segment_type |-> "null"]

\* findSegment(route, lat, lon) of segments.js
findSegment(route, lat, lon) ==
    LET seg == FirstMatch(SEGMENTS, route, lat, lon)
    IN  IF seg = None THEN NoSegment
        ELSE [segment_id |-> seg.id, segment_name |-> seg.name, segment_type |-> seg.type]

\* the rows of route_segments after seedStreetcarSegments: the same seven boxes,
\* id from the SERIAL column in the order of the INSERTs
RouteSegments ==
    [i \in 1..Len(SEGMENTS) |->
        [id |-> i, route |-> SEGMENTS[i].route, name |-> SEGMENTS[i].name,
         segment_type |-> SEGMENTS[i].type,
         min_lat |-> SEGMENTS[i].min_lat, max_lat |-> SEGMENTS[i].max_lat,
         min_lon |-> SEGMENTS[i].min_lon, max_lon |-> SEGMENTS[i].max_lon,
         sequence_order |-> SEGMENTS[i].order]]

\* findSegment(segments, route, lat, lon) of db.js: seg.id, or null (0)
findSegmentId(segments, route, lat, lon) ==
    LET seg == FirstMatch(segments, route, lat, lon)
    IN  IF seg = None THEN 0 ELSE seg.id

\* the points and routes looked up: box corners, shared edges, inner points and
\* a point outside every box
GeoLats == {299000, 299250, 299300, 299430, 299495, 299550, 299600}

GeoLons == {-900000, -900700, -900750, -900900, -901050, -901275}

GeoRoutes == {"12", "47"}

\* state of the lookups before the first call
GeoInit ==
    /\ MDIdle
    /\ RowIdle
    /\ CompIdle
    /\ BATCH_SIZE = 1
    /\ GeoIdle
    /\ AggIdle
    /\ FeedIdle
    /\ BootIdle
    /\ SchedIdle
    /\ PoolIdle

\* the rows with row k after the others: an UPDATE of a row stores it anew
MovedLast(rows, k) ==
    SubSeq(rows, 1, k - 1) \o SubSeq(rows, k + 1, Len(rows)) \o <<rows[k]>>

\* loadSegments(client): SELECT * FROM route_segments has no ORDER BY, the rows
\* come in the order the database stores them: the order of the INSERTs, or
\* with a row that was updated since after the others
LoadSegments ==
    /\ UNCHANGED geoOthers
    /\ segmentsCache = None
    /\ \E k \in 1..Len(RouteSegments) :
          segmentsCache' = MovedLast(RouteSegments, k)
    /\ UNCHANGED <<geoQuery, geoMem, geoRow>>

\* processVehicle: findSegment(v.rt, lat, lon) over the in-memory table
MemLookup ==
    /\ UNCHANGED geoOthers
    /\ \E route \in GeoRoutes, lat \in GeoLats, lon \in GeoLons :
          /\ geoQuery' = [route |-> route, lat |-> lat, lon |-> lon]
          /\ geoMem' = findSegment(route, lat, lon)
    /\ geoRow' = None
    /\ UNCHANGED segmentsCache

\* insertVehiclePositions: findSegment(segments, v.rt, lat, lon) over the cache
RowLookup ==
    /\ UNCHANGED geoOthers
    /\ segmentsCache # None
    /\ \E route \in GeoRoutes, lat \in GeoLats, lon \in GeoLons :
          /\ geoQuery' = [route |-> route, lat |-> lat, lon |-> lon]
          /\ geoRow' = [segment_id |-> findSegmentId(segmentsCache, route, lat, lon)]
    /\ geoMem' = None
    /\ UNCHANGED segmentsCache

GeoNext ==
    \/ LoadSegments
    \/ MemLookup
    \/ RowLookup

SpecGeo == GeoInit /\ [][GeoNext]_vars

\* ------------------------------------------------------------- aggregator
\* a row of transit_data as the collector's processVehicle builds it: the
\* segment columns come from findSegment
TransitRow(date, hour, route, vid, lat, lon, speed, dly) ==
    LET segment == findSegment(route, lat, lon)
    IN  [date |-> date, hour |-> hour, route |-> route, vid |-> vid,
         speed |-> speed, is_delayed |-> dly,
         segment_name |-> segment.segment_name, segment_type |-> segment.segment_type]

\* the kinds of rows the raw table holds: route 12 in Uptown (moving, on time),
\* route 12 on Canal Street (slow, delayed), route 12 in Uptown in the evening
\* (slow, delayed) and a bus of route 47 on the next day
RowKinds == <<
    TransitRow(1, 8, "12", "v1", 299250, -901275, 12, FALSE),
    TransitRow(1, 8, "12", "v2", 299600, -900700, 3, TRUE),
    TransitRow(1, 17, "12", "v1", 299250, -901275, 3, TRUE),
    TransitRow(2, 8, "47", "v3", 299600, -900700, 12, FALSE) >>

\* how many rows of each kind the raw table can hold
RowCounts == <<{0, 1, 31, 51}, {0, 1}, {0, 1}, {0, 51}>>

\* SUM(...) of a per-row value over the rows of a group
RECURSIVE Total(_, _, _)
Total(data, G, w) ==
    IF G = {} THEN 0
    ELSE LET x == CHOOSE y \in G : TRUE
         IN  CopiesIn(x, data) * w[x] + Total(data, G \ {x}, w)

\* COUNT(*)
Count(data, G) == Total(data, G, [x \in G |-> 1])

\* SUM(CASE WHEN is_delayed THEN 1 ELSE 0 END)
Delayed(data, G) == Total(data, G, [x \in G |-> IF x.is_delayed THEN 1 ELSE 0])

\* ROUND(num / den, 2) for num >= 0, in hundredths, halves away from zero
Round2(num, den) == (200 * num + den) \div (2 * den)

\* ROUND(AVG(speed), 2)
AvgSpeed(data, G) == Round2(Total(data, G, [x \in G |-> x.speed]), Count(data, G))

\* ROUND(100.0 * SUM(delayed) / COUNT(*), 2)
DelayPct(data, G) == Round2(100 * Delayed(data, G), Count(data, G))

\* ROUND(100.0 - (100.0 * SUM(delayed) / COUNT(*)), 2)
OnTimePct(data, G) == Round2(100 * (Count(data, G) - Delayed(data, G)), Count(data, G))

\* the order of the strings of the data under ORDER BY
Collation == <<"12", "47", "Canal Street (CBD)", "St. Charles - Uptown", "U",
               "dedicated_row", "mixed_traffic">>

Rank(str) == CHOOSE i \in 1..Len(Collation) : Collation[i] = str

\* the rows of a result set in the order of ORDER BY: key[r] is the place of
\* row r under the ordering columns, a string counting by its Rank
RECURSIVE Ordered(_, _)
Ordered(rows, key) ==
    IF rows = {} THEN <<>>
    ELSE LET first == CHOOSE r \in rows : \A o \in rows : key[r] <= key[o]
         IN  <<first>> \o Ordered(rows \ {first}, key)

\* ORDER BY a, b for a string b
By(a, b) == a * (Len(Collation) + 1) + Rank(b)

\* the rows of transit_data, each kind once
Kinds(data) == BagToSet(data)

\* WHERE route = '12' AND segment_type IS NOT NULL
Route12Typed(data) == {x \in Kinds(data) : x.route = "12" /\ x.segment_type # "null"}

\* step 1: the daily summaries
DailySummaries(data) ==
    LET row(d) ==
            LET G == {x \in Kinds(data) : x.date = d}
            IN  [date |-> d, total_records |-> Count(data, G),
                 total_routes |-> Cardinality({x.route : x \in G}),
                 total_vehicles |-> Cardinality({x.vid : x \in G}),
                 avg_speed |-> AvgSpeed(data, G),
                 delayed_count |-> Delayed(data, G),
                 on_time_pct |-> OnTimePct(data, G)]
        rows == {row(d) : d \in {x.date : x \in Kinds(data)}}
    IN  Ordered(rows, [r \in rows |-> r.date])

\* step 2: the daily route performance, WHERE route != 'U' ... HAVING COUNT(*) > 50
RoutePerf(data) ==
    LET S == {x \in Kinds(data) : x.route # "U"}
        row(k) ==
            LET G == {x \in S : x.date = k[1] /\ x.route = k[2]}
            IN  [date |-> k[1], route |-> k[2], readings |-> Count(data, G),
                 delayed |-> Delayed(data, G), delay_pct |-> DelayPct(data, G),
                 on_time_pct |-> OnTimePct(data, G), avg_speed |-> AvgSpeed(data, G)]
        rows == {r \in {row(k) : k \in {<<x.date, x.route>> : x \in S}} : r.readings > 50}
    IN  Ordered(rows, [r \in rows |-> By(r.date, r.route)])

\* step 3: the daily segment performance
SegmentPerf(data) ==
    LET S == Route12Typed(data)
        row(k) ==
            LET G == {x \in S : x.date = k[1] /\ x.segment_type = k[2]}
            IN  [date |-> k[1], segment_type |-> k[2], readings |-> Count(data, G),
                 delayed |-> Delayed(data, G), delay_pct |-> DelayPct(data, G),
                 on_time_pct |-> OnTimePct(data, G), avg_speed |-> AvgSpeed(data, G)]
        rows == {row(k) : k \in {<<x.date, x.segment_type>> : x \in S}}
    IN  Ordered(rows, [r \in rows |-> By(r.date, r.segment_type)])

\* step 4: the hourly segment performance
HourlyPerf(data) ==
    LET S == Route12Typed(data)
        row(k) ==
            LET G == {x \in S : x.hour = k[1] /\ x.segment_type = k[2]}
            IN  [hour |-> k[1], segment_type |-> k[2], readings |-> Count(data, G),
                 delayed |-> Delayed(data, G), delay_pct |-> DelayPct(data, G),
                 avg_speed |-> AvgSpeed(data, G)]
        rows == {row(k) : k \in {<<x.hour, x.segment_type>> : x \in S}}
    IN  Ordered(rows, [r \in rows |-> By(r.hour, r.segment_type)])

\* step 6: the segment summaries, ORDER BY avg_speed DESC
SegmentSummaries(data) ==
    LET S == {x \in Kinds(data) : x.route = "12" /\ x.segment_name # "null"}
        row(k) ==
            LET G == {x \in S : x.segment_name = k[1] /\ x.segment_type = k[2]}
            IN  [segment_name |-> k[1], segment_type |-> k[2], readings |-> Count(data, G),
                 delay_pct |-> DelayPct(data, G), avg_speed |-> AvgSpeed(data, G)]
        rows == {row(k) : k \in {<<x.segment_name, x.segment_type>> : x \in S}}
    IN  Ordered(rows, [r \in rows |-> By(0 - r.avg_speed, r.segment_name)])

\* the numbered steps of consolidate(); step 5 computes the segment type
\* summaries and writes nothing
LastPhase == 6

TableOf(phase) ==
    CASE phase = 1 -> "daily_summary"
      [] phase = 2 -> "daily_route_performance"
      [] phase = 3 -> "daily_segment_performance"
      [] phase = 4 -> "hourly_segment_performance"
      [] phase = 6 -> "segment_summary"
      [] OTHER -> "none"

\* the steps that write a table
WritingPhases == {ph \in 1..LastPhase : TableOf(ph) # "none"}

PhaseRows(phase, data) ==
    CASE phase = 1 -> DailySummaries(data)
      [] phase = 2 -> RoutePerf(data)
      [] phase = 3 -> SegmentPerf(data)
      [] phase = 4 -> HourlyPerf(data)
      [] phase = 6 -> SegmentSummaries(data)
      [] OTHER -> <<>>

\* the columns of the conflict target of a table
KeyOf(tbl, r) ==
    CASE tbl = "daily_summary" -> <<r.date>>
      [] tbl = "daily_route_performance" -> <<r.date, r.route>>
      [] tbl = "daily_segment_performance" -> <<r.date, r.segment_type>>
      [] tbl = "hourly_segment_performance" -> <<r.hour, r.segment_type>>
      [] tbl = "segment_summary" -> <<r.segment_name>>

\* the timestamp columns of a row: created_at keeps its DEFAULT, updated_at is
\* set by the statements of the two tables that have it
Stamps(tbl, created, t) ==
    IF tbl \in {"hourly_segment_performance", "segment_summary"}
    THEN [created_at |-> created, updated_at |-> t]
    ELSE [created_at |-> created]

\* variant of Upsert: INSERT without the ON CONFLICT clause
InsertOnly(tbl, rows, new, t) == rows \cup {new @@ Stamps(tbl, t, t)}

\* variant of Upsert: ON CONFLICT (key) DO NOTHING
UpsertKeepOld(tbl, rows, new, t) ==
    IF \E r \in rows : KeyOf(tbl, r) = KeyOf(tbl, new) THEN rows
    ELSE rows \cup {new @@ Stamps(tbl, t, t)}

\* INSERT INTO tbl ... ON CONFLICT (key) DO UPDATE SET ...
Upsert(tbl, rows, new, t) ==
    LET hit == {r \in rows : KeyOf(tbl, r) = KeyOf(tbl, new)}
    IN  IF hit = {} THEN rows \cup {new @@ Stamps(tbl, t, t)}
        ELSE (rows \ hit) \cup {new @@ Stamps(tbl, r.created_at, t) : r \in hit}

\* the loop of a step run to its end
RECURSIVE UpsertAll(_, _, _, _)
UpsertAll(tbl, rows, news, t) ==
    IF news = <<>> THEN rows
    ELSE UpsertAll(tbl, Upsert(tbl, rows, Head(news), t), Tail(news), t)

\* consolidate() run to its end at time t
RunAll(tables, data, t) ==
    [tbl \in DOMAIN tables |->
        UpsertAll(tbl, tables[tbl],
                  PhaseRows(CHOOSE ph \in WritingPhases : TableOf(ph) = tbl, data), t)]

\* the tables an earlier run left when the raw table held one row
StaleTables == RunAll(EmptyTables, SetToBag({RowKinds[1]}), 0)

\* variant of OnError: the statements of the failed run are undone
OnErrorRollback(committed, atStart) == atStart

\* catch (err) { console.error(...); throw err }: what was committed stays
OnError(committed, atStart) == committed

\* the raw table the runs read: it does not change between them
AggInit ==
    /\ MDIdle
    /\ RowIdle
    /\ CompIdle
    /\ BATCH_SIZE = 1
    /\ GeoIdle
    /\ \E n \in {f \in [1..Len(RowKinds) -> UNION Range(RowCounts)] :
                     \A i \in 1..Len(RowKinds) : f[i] \in RowCounts[i]} :
          transit_data = [k \in {RowKinds[i] : i \in {j \in 1..Len(RowKinds) : n[j] > 0}} |->
                             n[CHOOSE i \in 1..Len(RowKinds) : RowKinds[i] = k]]
    /\ pg \in {EmptyTables, StaleTables}
    /\ aggPc = "idle"
    /\ aggPhase = 0
    /\ pending = <<>>
    /\ aggClock = 0
    /\ prevOutcome = "none"
    /\ pgAtStart = EmptyTables
    /\ FeedIdle
    /\ BootIdle
    /\ SchedIdle
    /\ PoolIdle

\* consolidate() is called: by main() at startup, then by the cron schedule
StartRun ==
    /\ UNCHANGED aggOthers
    /\ aggPc = "idle"
    /\ aggClock < MaxRuns
    /\ aggClock' = aggClock + 1
    /\ pgAtStart' = IF prevOutcome = "failed" THEN pgAtStart ELSE pg
    /\ aggPc' = "range"
    /\ UNCHANGED <<transit_data, pg, aggPhase, pending, prevOutcome>>

\* SELECT NOW() and the date range query succeed: return when there is no data
DateRange ==
    /\ UNCHANGED aggOthers
    /\ aggPc = "range"
    /\ IF BagCardinality(transit_data) = 0
       THEN aggPc' = "done" /\ aggPhase' = 0
       ELSE aggPc' = "query" /\ aggPhase' = 1
    /\ UNCHANGED <<transit_data, pg, pending, aggClock, prevOutcome, pgAtStart>>

\* the query of the step succeeds
Query ==
    /\ UNCHANGED aggOthers
    /\ aggPc = "query"
    /\ pending' = PhaseRows(aggPhase, transit_data)
    /\ aggPc' = "upsert"
    /\ UNCHANGED <<transit_data, pg, aggPhase, aggClock, prevOutcome, pgAtStart>>

\* for (const row of ...) await pgPool.query(INSERT ... ON CONFLICT ...): one row
UpsertRow ==
    /\ UNCHANGED aggOthers
    /\ aggPc = "upsert"
    /\ pending # <<>>
    /\ pg' = [pg EXCEPT ![TableOf(aggPhase)] =
                  Upsert(TableOf(aggPhase), @, Head(pending), aggClock)]
    /\ pending' = Tail(pending)
    /\ UNCHANGED <<transit_data, aggPc, aggPhase, aggClock, prevOutcome, pgAtStart>>

\* variant of StepAfter: the route step is passed over
StepAfterSkipping(phase) == IF phase = 1 THEN 3 ELSE phase + 1

\* the numbered steps of consolidate() stand one after the other, each awaited
StepAfter(phase) == phase + 1

\* the loop of the step is over: the next step, or consolidate() resolves
NextPhase ==
    /\ UNCHANGED aggOthers
    /\ aggPc = "upsert"
    /\ pending = <<>>
    /\ IF aggPhase = LastPhase
       THEN aggPc' = "done" /\ aggPhase' = 0
       ELSE aggPc' = "query" /\ aggPhase' = StepAfter(aggPhase)
    /\ UNCHANGED <<transit_data, pg, pending, aggClock, prevOutcome, pgAtStart>>

\* a query of MotherDuck or a statement of Postgres throws: consolidate()
\* logs the error and rejects with it
Throws ==
    /\ UNCHANGED aggOthers
    /\ \/ aggPc \in {"range", "query"}
       \/ aggPc = "upsert" /\ pending # <<>>
    /\ pg' = OnError(pg, pgAtStart)
    /\ aggPc' = "failed"
    /\ pending' = <<>>
    /\ UNCHANGED <<transit_data, aggPhase, aggClock, prevOutcome, pgAtStart>>

\* consolidate() has settled; the next scheduled run can start
Settled ==
    /\ UNCHANGED aggOthers
    /\ aggPc \in {"done", "failed"}
    /\ prevOutcome' = aggPc
    /\ aggPc' = "idle"
    /\ aggPhase' = 0
    /\ UNCHANGED <<transit_data, pg, pending, aggClock, pgAtStart>>

AggNext ==
    \/ StartRun
    \/ DateRange
    \/ Query
    \/ UpsertRow
    \/ NextPhase
    \/ Throws
    \/ Settled

SpecAgg == AggInit /\ [][AggNext]_vars

\* ------------------------------------------------------------- startup
\* main() of the collector (src/src/index.js), the top level of the Compactor
\* (src/scripts/consolidate.js) and main() of the Aggregator
\* (src/consolidation/index.js), up to the first pass of their work.

Programs == {"collector", "compactor", "aggregator"}

\* the credentials of the durable store the collector and the Aggregator read
MOTHERDUCK_TOKEN == {"MOTHERDUCK_TOKEN"}

MOTHER_DUCK_API_KEY == {"MOTHER_DUCK_API_KEY"}

\* the password of the summary store
POSTGRES_PASSWORD == {"POSTGRES_PASSWORD"}

\* the credentials of the Compactor, each read under either of two names
R2_ACCOUNT_ID == {"R2_ACCOUNT_ID", "VITE_R2_ACCOUNT_ID"}

R2_ACCESS_KEY_ID == {"R2_ACCESS_KEY_ID", "VITE_R2_ACCESS_KEY_ID"}

R2_SECRET_ACCESS_KEY == {"R2_SECRET_ACCESS_KEY", "VITE_R2_SECRET_ACCESS_KEY"}

\* the credentials each program reads from process.env, each a set of the
\* names it is read under
Required(p) ==
    CASE p = "collector"  -> {MOTHERDUCK_TOKEN}
      [] p = "compactor"  -> {R2_ACCOUNT_ID, R2_ACCESS_KEY_ID, R2_SECRET_ACCESS_KEY}
      [] p = "aggregator" -> {MOTHER_DUCK_API_KEY, POSTGRES_PASSWORD}

\* process.env.A || process.env.B is truthy
IsSet(names) == names \cap env # {}

\* the answers of a store to a request that needs credentials: it succeeds
\* or fails when they are set, and fails when one is missing
StoreAccepts(credentials) ==
    IF \A c \in credentials : IsSet(c) THEN BOOLEAN ELSE {FALSE}

BootInit ==
    /\ MDIdle
    /\ RowIdle
    /\ CompIdle
    /\ BATCH_SIZE = 1
    /\ GeoIdle
    /\ AggIdle
    /\ FeedIdle
    /\ SchedIdle
    /\ PoolIdle
    /\ program \in Programs
    /\ env \in SUBSET UNION Required(program)
    /\ runOnce \in (IF program = "aggregator" THEN BOOLEAN ELSE {FALSE})
    /\ bootPc = "main"
    /\ work = {}
    /\ bootExit = -1

bootOthers == <<mdVars, rowVars, compVars, geoVars, aggVars, feedVars, schedVars, poolVars>>

\* process.exit(code)
Exit(code) ==
    /\ bootPc' = "exited"
    /\ bootExit' = code

\* operation op on the feed or a store has completed
Did(op) == work' = work \cup op

\* collector main: if (!process.env.MOTHERDUCK_TOKEN) process.exit(1)
ValidateToken ==
    /\ UNCHANGED bootOthers
    /\ program = "collector"
    /\ bootPc = "main"
    /\ IF ~IsSet(MOTHERDUCK_TOKEN)
       THEN Exit(1)
       ELSE bootPc' = "initMotherDuck" /\ UNCHANGED bootExit
    /\ UNCHANGED <<program, env, runOnce, work>>

\* collector main: await initMotherDuck(), which creates the database and the
\* table of the durable store; process.exit(1) when it rejects
CollectorInitMotherDuck ==
    /\ UNCHANGED bootOthers
    /\ program = "collector"
    /\ bootPc = "initMotherDuck"
    /\ \E ok \in StoreAccepts({MOTHERDUCK_TOKEN}) :
          IF ok THEN /\ Did({"durable.write"})
                     /\ bootPc' = "connectSSE"
                     /\ UNCHANGED bootExit
                ELSE Exit(1) /\ UNCHANGED work
    /\ UNCHANGED <<program, env, runOnce>>

\* collector main: connectSSE() and the timers
CollectorConnectSSE ==
    /\ UNCHANGED bootOthers
    /\ program = "collector"
    /\ bootPc = "connectSSE"
    /\ Did({"feed"})
    /\ bootPc' = "running"
    /\ UNCHANGED <<program, env, runOnce, bootExit>>

\* Compactor: the S3 client is built from whatever process.env holds, and
\* consolidate() starts with listAllFiles(); a rejection ends in process.exit(1)
CompactorListFiles ==
    /\ UNCHANGED bootOthers
    /\ program = "compactor"
    /\ bootPc = "main"
    /\ \E ok \in StoreAccepts(Required("compactor")) :
          IF ok THEN /\ Did({"durable.read"})
                     /\ bootPc' = "running"
                     /\ UNCHANGED bootExit
                ELSE Exit(1) /\ UNCHANGED work
    /\ UNCHANGED <<program, env, runOnce>>

\* Aggregator initMotherDuck: new duckdb.Database(':md:'), which needs no
\* credential (the collector sets its token after the same open)
AggregatorOpen ==
    /\ UNCHANGED bootOthers
    /\ program = "aggregator"
    /\ bootPc = "main"
    /\ \E ok \in BOOLEAN :
          IF ok THEN bootPc' = "attach" /\ UNCHANGED bootExit
                ELSE Exit(1)
    /\ UNCHANGED <<program, env, runOnce, work>>

\* Aggregator initMotherDuck: ATTACH 'md:...'; its error is logged as "might
\* already be attached" and the promise resolves either way
AggregatorAttach ==
    /\ UNCHANGED bootOthers
    /\ program = "aggregator"
    /\ bootPc = "attach"
    /\ \E ok \in StoreAccepts({MOTHER_DUCK_API_KEY}) :
          bootPc' = "initPostgres"
    /\ UNCHANGED <<program, env, runOnce, work, bootExit>>

\* Aggregator initPostgres: pgPool.query(schema) creates the rollup tables
AggregatorInitPostgres ==
    /\ UNCHANGED bootOthers
    /\ program = "aggregator"
    /\ bootPc = "initPostgres"
    /\ \E ok \in StoreAccepts({POSTGRES_PASSWORD}) :
          IF ok THEN /\ Did({"summary.write"})
                     /\ bootPc' = "consolidate"
                     /\ UNCHANGED bootExit
                ELSE Exit(1) /\ UNCHANGED work
    /\ UNCHANGED <<program, env, runOnce>>

\* Aggregator main: the first consolidate(): SELECT NOW() on the summary
\* store, then the queries of the durable store; a throw reaches the catch of
\* main and process.exit(1); with --once the pass ends in process.exit(0)
AggregatorConsolidate ==
    /\ UNCHANGED bootOthers
    /\ program = "aggregator"
    /\ bootPc = "consolidate"
    /\ \E pgOk \in StoreAccepts({POSTGRES_PASSWORD}),
          mdOk \in StoreAccepts({MOTHER_DUCK_API_KEY}) :
          IF ~pgOk THEN Exit(1) /\ UNCHANGED work
          ELSE IF ~mdOk THEN Exit(1) /\ Did({"summary.read"})
          ELSE /\ Did({"summary.read", "durable.read", "summary.write"})
               /\ IF runOnce THEN Exit(0)
                             ELSE bootPc' = "running" /\ UNCHANGED bootExit
    /\ UNCHANGED <<program, env, runOnce>>

BootNext ==
    \/ ValidateToken
    \/ CollectorInitMotherDuck
    \/ CollectorConnectSSE
    \/ CompactorListFiles
    \/ AggregatorOpen
    \/ AggregatorAttach
    \/ AggregatorInitPostgres
    \/ AggregatorConsolidate

SpecBoot == BootInit /\ [][BootNext]_vars

\* ------------------------------------------------------------- services
\* The Aggregator service (src/consolidation/index.js main and its signal
\* handlers) and the Compactor scheduler (src/unnamed/part_003), which spawns
\* consolidate.js as a child process, and consolidate.js run by itself
\* (src/scripts/consolidate.js), which makes one pass. A run is consolidate()
\* of the Aggregator or of the script, or one child process of the scheduler.

Services == {"aggregator", "scheduler", "compactor"}

SchedInit ==
    /\ MDIdle
    /\ RowIdle
    /\ CompIdle
    /\ BATCH_SIZE = 1
    /\ GeoIdle
    /\ AggIdle
    /\ FeedIdle
    /\ BootIdle
    /\ PoolIdle
    /\ service \in Services
    /\ once \in CASE service = "aggregator" -> BOOLEAN
                [] service = "scheduler"  -> {FALSE}
                [] service = "compactor"  -> {TRUE}
    /\ onStart \in (IF service = "scheduler" THEN BOOLEAN ELSE {FALSE})
    /\ svcPc = "start"
    /\ runs = <<>>
    /\ ending = FALSE
    /\ svcExit = -1
    /\ exitCause = "none"

schedOthers == <<mdVars, rowVars, compVars, geoVars, aggVars, feedVars, bootVars,
                 poolVars>>

\* a run begun by the startup code or by the cron trigger
NewRun(by) == [by |-> by, state |-> "running"]

Running == {i \in DOMAIN runs : runs[i].state = "running"}

CronRuns == {i \in DOMAIN runs : runs[i].by = "cron"}

\* process.exit(code)
SvcExits(code, cause) ==
    /\ svcPc' = "exited"
    /\ svcExit' = code
    /\ exitCause' = cause

\* variant of StartupFailureExits: the error of the pass is swallowed
StartupFailureSwallowed(isOnce) == FALSE

\* main of the Aggregator awaits the startup run inside its try: a throw
\* reaches catch and process.exit(1), with --once or without
StartupFailureExits(isOnce) == TRUE

\* Aggregator main: initMotherDuck and initPostgres resolve, consolidate() begins
AggregatorInitOk ==
    /\ UNCHANGED schedOthers
    /\ service = "aggregator"
    /\ svcPc = "start"
    /\ svcPc' = "startupRun"
    /\ runs' = Append(runs, NewRun("startup"))
    /\ UNCHANGED <<service, once, onStart, ending, svcExit, exitCause>>

\* Aggregator main: initMotherDuck or initPostgres throws
AggregatorInitFails ==
    /\ UNCHANGED schedOthers
    /\ service = "aggregator"
    /\ svcPc = "start"
    /\ SvcExits(1, "init")
    /\ UNCHANGED <<service, once, onStart, runs, ending>>

\* Aggregator main: the awaited consolidate() resolves: with --once
\* pgPool.end() is awaited next, else cron.schedule is called
StartupRunSucceeds ==
    /\ UNCHANGED schedOthers
    /\ service = "aggregator"
    /\ svcPc = "startupRun"
    /\ runs' = [runs EXCEPT ![1].state = "ok"]
    /\ svcPc' = IF once THEN "poolEnd" ELSE "scheduled"
    /\ UNCHANGED <<service, once, onStart, ending, svcExit, exitCause>>

\* Aggregator main: the awaited consolidate() throws
StartupRunFails ==
    /\ UNCHANGED schedOthers
    /\ service = "aggregator"
    /\ svcPc = "startupRun"
    /\ runs' = [runs EXCEPT ![1].state = "failed"]
    /\ IF StartupFailureExits(once)
       THEN SvcExits(1, "run")
       ELSE /\ svcPc' = IF once THEN "poolEnd" ELSE "scheduled"
            /\ UNCHANGED <<svcExit, exitCause>>
    /\ UNCHANGED <<service, once, onStart, ending>>

\* Aggregator main with --once: pgPool.end() resolves, process.exit(0)
PoolEnded ==
    /\ UNCHANGED schedOthers
    /\ service = "aggregator"
    /\ svcPc = "poolEnd"
    /\ SvcExits(0, "done")
    /\ UNCHANGED <<service, once, onStart, runs, ending>>

\* consolidate.js: the top level calls consolidate()
CompactorStart ==
    /\ UNCHANGED schedOthers
    /\ service = "compactor"
    /\ svcPc = "start"
    /\ svcPc' = "startupRun"
    /\ runs' = Append(runs, NewRun("startup"))
    /\ UNCHANGED <<service, once, onStart, ending, svcExit, exitCause>>

\* consolidate.js: consolidate() resolves and nothing is left to run: the
\* process ends with code 0
CompactorSucceeds ==
    /\ UNCHANGED schedOthers
    /\ service = "compactor"
    /\ svcPc = "startupRun"
    /\ runs' = [runs EXCEPT ![1].state = "ok"]
    /\ SvcExits(0, "done")
    /\ UNCHANGED <<service, once, onStart, ending>>

\* consolidate.js: consolidate().catch: process.exit(1)
CompactorFails ==
    /\ UNCHANGED schedOthers
    /\ service = "compactor"
    /\ svcPc = "startupRun"
    /\ runs' = [runs EXCEPT ![1].state = "failed"]
    /\ SvcExits(IF StartupFailureExits(once) THEN 1 ELSE 0, "run")
    /\ UNCHANGED <<service, once, onStart, ending>>

\* the scheduler's top level: cron.schedule, then runConsolidation() when
\* CONSOLIDATE_ON_START is 'true'
SchedulerStart ==
    /\ UNCHANGED schedOthers
    /\ service = "scheduler"
    /\ svcPc = "start"
    /\ svcPc' = "scheduled"
    /\ runs' = IF onStart THEN Append(runs, NewRun("startup")) ELSE runs
    /\ UNCHANGED <<service, once, onStart, ending, svcExit, exitCause>>

\* the cron trigger fires: the callback starts a run
CronFires ==
    /\ UNCHANGED schedOthers
    /\ svcPc = "scheduled"
    /\ Cardinality(CronRuns) < MaxCron
    /\ runs' = Append(runs, NewRun("cron"))
    /\ UNCHANGED <<service, once, onStart, svcPc, ending, svcExit, exitCause>>

\* a run started by a callback ends well: the promise of the Aggregator's
\* callback resolves, or the scheduler's child closes with code 0
RunSucceeds ==
    /\ UNCHANGED schedOthers
    /\ svcPc = "scheduled"
    /\ \E i \in Running : runs' = [runs EXCEPT ![i].state = "ok"]
    /\ UNCHANGED <<service, once, onStart, svcPc, ending, svcExit, exitCause>>

\* the scheduler's child closes with a non-zero code: child.on('close') logs it
ChildFails ==
    /\ UNCHANGED schedOthers
    /\ service = "scheduler"
    /\ svcPc = "scheduled"
    /\ \E i \in Running : runs' = [runs EXCEPT ![i].state = "failed"]
    /\ UNCHANGED <<service, once, onStart, svcPc, ending, svcExit, exitCause>>

\* consolidate() throws inside the Aggregator's cron callback, which has no
\* catch: the rejection is left to the cron library and the runtime, which
\* either swallow it or end the process with code 1
CronRunFails ==
    /\ UNCHANGED schedOthers
    /\ service = "aggregator"
    /\ svcPc = "scheduled"
    /\ \E i \in Running : runs' = [runs EXCEPT ![i].state = "failed"]
    /\ \E dies \in BOOLEAN :
          IF dies THEN SvcExits(1, "rejection")
                  ELSE UNCHANGED <<svcPc, svcExit, exitCause>>
    /\ UNCHANGED <<service, once, onStart, ending>>

\* SIGTERM or SIGINT reaches the Aggregator: the handler awaits pgPool.end()
AggregatorSignal ==
    /\ UNCHANGED schedOthers
    /\ service = "aggregator"
    /\ svcPc \notin {"idle", "exited"}
    /\ ~ending
    /\ ending' = TRUE
    /\ UNCHANGED <<service, once, onStart, svcPc, runs, svcExit, exitCause>>

\* the handler of the Aggregator goes on: process.exit(0)
AggregatorSignalExit ==
    /\ UNCHANGED schedOthers
    /\ service = "aggregator"
    /\ svcPc \notin {"idle", "exited"}
    /\ ending
    /\ SvcExits(0, "signal")
    /\ UNCHANGED <<service, once, onStart, runs, ending>>

\* SIGTERM reaches the scheduler: process.exit(0)
SchedulerSignal ==
    /\ UNCHANGED schedOthers
    /\ service = "scheduler"
    /\ svcPc \notin {"idle", "exited"}
    /\ SvcExits(0, "signal")
    /\ UNCHANGED <<service, once, onStart, runs, ending>>

SchedNext ==
    \/ AggregatorInitOk
    \/ AggregatorInitFails
    \/ StartupRunSucceeds
    \/ StartupRunFails
    \/ PoolEnded
    \/ CompactorStart
    \/ CompactorSucceeds
    \/ CompactorFails
    \/ SchedulerStart
    \/ CronFires
    \/ RunSucceeds
    \/ ChildFails
    \/ CronRunFails
    \/ AggregatorSignal
    \/ AggregatorSignalExit
    \/ SchedulerSignal

SpecSched == SchedInit /\ [][SchedNext]_vars

\* ------------------------------------------------------------- pool
\* insertVehiclePositions (src/src/db.js) and the client it checks out of the
\* pool: const client = await pool.connect(); try { ... } finally
\* { client.release(); }

\* the arrays insertVehiclePositions is called with: none, or one vehicle
PoolBatches ==
    { <<>> } \cup { Vehicles(cs, 1) : cs \in [1..1 -> CoordChoices] }

PoolInit ==
    /\ MDIdle
    /\ RowIdle
    /\ CompIdle
    /\ BATCH_SIZE = 1
    /\ GeoIdle
    /\ AggIdle
    /\ FeedIdle
    /\ BootIdle
    /\ SchedIdle
    /\ checkedOut = 0
    /\ poolCalls = {}
    /\ finished = {}

poolOthers == <<mdVars, rowVars, compVars, aggVars, feedVars, bootVars, schedVars>>

FreePid == CHOOSE n \in 1..MaxInflight : \A c \in poolCalls : c.pid # n

HoldsClient(c) == c.stage \in {"segments", "query"}

\* variant of ReleasedOn: release is the last statement of the try block
ReleasedOnSuccess(path) == path = "inserted"

\* client.release() stands in the finally block: it runs however the try
\* block is left
ReleasedOn(path) == TRUE

\* the call c leaves the try block by path
Leaves(c, path) ==
    /\ poolCalls' = poolCalls \ {c}
    /\ checkedOut' = IF ReleasedOn(path) THEN checkedOut - 1 ELSE checkedOut
    /\ finished' = finished \cup {path}

\* insertVehiclePositions(vehicles): an empty array returns at once, else
\* pool.connect() is awaited
InsertCall ==
    /\ UNCHANGED <<poolOthers, geoVars>>
    /\ \E vehicles \in PoolBatches :
          IF Len(vehicles) = 0
          THEN /\ finished' = finished \cup {"empty"}
               /\ UNCHANGED <<checkedOut, poolCalls>>
          ELSE /\ Cardinality(poolCalls) < MaxInflight
               /\ poolCalls' = poolCalls \cup
                     {[pid |-> FreePid, vehicles |-> vehicles, stage |-> "connect"]}
               /\ UNCHANGED <<checkedOut, finished>>

\* await pool.connect() resolves with a client
PoolConnect ==
    /\ UNCHANGED <<poolOthers, geoVars>>
    /\ \E c \in poolCalls :
          /\ c.stage = "connect"
          /\ poolCalls' = (poolCalls \ {c}) \cup {[c EXCEPT !.stage = "segments"]}
    /\ checkedOut' = checkedOut + 1
    /\ UNCHANGED finished

\* await pool.connect() rejects: no client was handed out
PoolConnectFails ==
    /\ UNCHANGED <<poolOthers, geoVars>>
    /\ \E c \in poolCalls :
          /\ c.stage = "connect"
          /\ poolCalls' = poolCalls \ {c}
    /\ finished' = finished \cup {"connect failed"}
    /\ UNCHANGED checkedOut

\* loadSegments resolves (from the cache, or by its query) and the rows are
\* built: with no row left the function returns, else the INSERT is sent
SegmentsLoaded ==
    /\ UNCHANGED poolOthers
    /\ segmentsCache' = IF segmentsCache = None THEN RouteSegments ELSE segmentsCache
    /\ UNCHANGED <<geoQuery, geoMem, geoRow>>
    /\ \E c \in poolCalls :
          /\ c.stage = "segments"
          /\ IF InsertValues(c.vehicles) = <<>>
             THEN Leaves(c, "filtered")
             ELSE /\ poolCalls' = (poolCalls \ {c}) \cup {[c EXCEPT !.stage = "query"]}
                  /\ UNCHANGED <<checkedOut, finished>>

\* the query of loadSegments rejects
SegmentsFail ==
    /\ UNCHANGED <<poolOthers, geoVars>>
    /\ segmentsCache = None
    /\ \E c \in poolCalls :
          /\ c.stage = "segments"
          /\ Leaves(c, "segments failed")

\* await client.query(query, values) resolves
PoolQueryOk ==
    /\ UNCHANGED <<poolOthers, geoVars>>
    /\ \E c \in poolCalls :
          /\ c.stage = "query"
          /\ Leaves(c, "inserted")

\* await client.query(query, values) rejects
PoolQueryFails ==
    /\ UNCHANGED <<poolOthers, geoVars>>
    /\ \E c \in poolCalls :
          /\ c.stage = "query"
          /\ Leaves(c, "insert failed")

PoolNext ==
    \/ InsertCall
    \/ PoolConnect
    \/ PoolConnectFails
    \/ SegmentsLoaded
    \/ SegmentsFail
    \/ PoolQueryOk
    \/ PoolQueryFails

SpecPool == PoolInit /\ [][PoolNext]_vars

\* ============================================================= claims

\* every record the collector holds or has handed to the sink
HeldRecords ==
    Range(buffer) \cup UNION { Range(f.snap) : f \in inflight } \cup BagToSet(stored)

\* C1: no record with latitude 0 and longitude 0 is ever in the ingest buffer,
\* in a sink write or in durable storage, whatever the encoding of the zero.
C1_SentinelNeverHeld == \A r \in HeldRecords : ~(r.lat = 0 /\ r.lon = 0)

\* the buffer behind the re-queued snapshot of the last failed flush
LastFailRest == SubSeq(lastFail.after, Len(lastFail.snap) + 1, Len(lastFail.after))

\* C2 (as stated): after a failed write the buffer is exactly the snapshot
\* followed by exactly the records that arrived while the write was pending.
C2_RequeueExactArrivals ==
    lastFail # None => lastFail.after = lastFail.snap \o lastFail.arrived

\* C2 (amended): after a failed write the buffer starts with the snapshot, in
\* order and exactly once, followed by what the buffer held at that moment; with
\* no other flush pending during the write, that is exactly the arrivals.
C2_RequeueFront ==
    lastFail # None =>
        /\ IsPrefix(lastFail.snap, lastFail.after)
        /\ Ids(LastFailRest) \cap Ids(lastFail.snap) = {}
        /\ Cardinality(Ids(lastFail.after)) = Len(lastFail.after)
        /\ ~lastFail.overlapped => LastFailRest = lastFail.arrived

C2_Witness ==
    /\ lastFail # None
    /\ ~lastFail.overlapped
    /\ lastFail.snap # <<>>
    /\ lastFail.arrived # <<>>
    /\ buffer = lastFail.after

\* C3: every record appears in durable storage at most once.
C3_StoredAtMostOnce == \A r \in BagToSet(stored) : CopiesIn(r, stored) <= 1

StoredIds == {r.id : r \in BagToSet(stored)}

\* C4: with the timer firing, the sink accepting writes again and no shutdown,
\* every record in the ingest buffer is eventually in durable storage.
C4_EventuallyStored ==
    \A i \in 1..MaxRecords : (i \in Ids(buffer)) ~> (i \in StoredIds)

C4_Witness ==
    /\ lastFail # None
    /\ Len(lastFail.snap) = MaxRecords
    /\ Ids(lastFail.snap) \subseteq StoredIds
    /\ stats.uploadsCompleted >= 1
    /\ buffer = <<>>
    /\ inflight = {}

\* C6: a shutdown call that found unflushed records has made exactly one flush
\* attempt, that attempt is settled before the call exits, and the exit code is 0.
C6_ShutdownOneFlush ==
    /\ \A h \in 1..MaxSignals :
          (handlers[h].pc # "none" /\ handlers[h].saw) => handlers[h].attempts = 1
    /\ exited =>
          /\ exitCode = 0
          /\ handlers[exitedBy].saw => handlers[exitedBy].result \in {"ok", "failed"}

C6_Witness ==
    /\ exited
    /\ exitCode = 0
    /\ handlers[exitedBy].saw
    /\ handlers[exitedBy].attempts = 1
    /\ handlers[exitedBy].result = "ok"
    /\ BagCardinality(stored) = MaxRecords

\* C7: the sink is never closed, and the process never exits, while a sink
\* write is still pending.
C7_NoCloseWhilePending == (dbClosing \/ exited) => inflight = {}

\* rows of the INSERT statements pending at the same time in two calls
PendingTwice ==
    { r \in UNION { Range(c.values) : c \in rowCalls } :
         \E c1, c2 \in rowCalls :
            /\ c1 # c2
            /\ c1.stage = "query" /\ c2.stage = "query"
            /\ r \in Range(c1.values) /\ r \in Range(c2.values) }

\* C5: when flushes overlap, no record is included in more than one sink write.
C5_NoRecordInTwoWrites ==
    /\ PendingTwice = {}
    /\ \A f1, f2 \in inflight : f1 # f2 => Ids(f1.snap) \cap Ids(f2.snap) = {}

\* a date of this run whose daily object is uploaded and whose originals are gone
Compacted(e) == e.date \in uploaded /\ e.files \cap Keys(objects) = {}

\* C8: once a date is compacted, its daily object holds exactly the multiset
\* union of the records of its fragments, and so does storage for that date.
C8_ExactMultiset ==
    \A e \in expected :
        Compacted(e) =>
            /\ SeqToBag(RecsOf(objects, DailyKey(e.date))) = e.rows
            /\ StorageRows(e.date) = e.rows

\* C9: an original fragment is gone only if the daily object of its date was
\* uploaded in this run; when the write or upload fails, the run ends with every
\* original of the date still stored.
C9_DeleteOnlyAfterUpload ==
    /\ \A e \in expected :
          (e.files \ Keys(objects) # {}) =>
              (e.date \in uploaded /\ DailyKey(e.date) \in Keys(objects))
    /\ failedAt = "upload" =>
          /\ cpc = "failed"
          /\ Range(files) \subseteq Keys(objects)
          /\ Head(dates) \notin uploaded

C9_Witness ==
    /\ cpc = "failed"
    /\ failedAt = "upload"
    /\ Len(files) >= 2
    /\ Range(files) \subseteq Keys(objects)
    /\ DailyKey(Head(dates)) \notin Keys(objects)

\* the listed fragments of the current date
TodayFragments == {k \in HourlyFiles(allFiles) : k.date = now}

\* C10: the date being consolidated, every date consolidated in the run and
\* every date with a deleted fragment is before the current date, and the
\* fragments of the current date stay stored.
C10_TodayUntouched ==
    /\ cpc \in {"read", "upload", "delete"} => Head(dates) < now
    /\ \A d \in uploaded : d < now
    /\ \A e \in expected : e.date < now
    /\ TodayFragments \subseteq Keys(objects)
    /\ DailyKey(now) \notin Keys(objects)

C10_Witness ==
    /\ cpc = "done"
    /\ today = now
    /\ uploaded # {}
    /\ Cardinality(TodayFragments) >= 1
    /\ TodayFragments \subseteq Keys(objects)

\* C11: when a run completes after runs that failed before the upload, after the
\* upload and before the deletion, or part-way through the deletion (no file
\* read having failed in the series), storage holds for the date of the failure
\* exactly the rows it held before the first run.
C11_RerunRestores ==
    (cpc = "done" /\ atFirstRun \notin {None, Untracked}) =>
        StorageRows(atFirstRun.date) = atFirstRun.held

\* the segments of the route whose box holds the point of the lookup
Holding(q) == {i \in 1..Len(SEGMENTS) :
                  SEGMENTS[i].route = q.route /\ InBox(SEGMENTS[i], q.lat, q.lon)}

\* the id of the holding segment with the lowest sequence order, 0 for none
LowestOrder(q) ==
    IF Holding(q) = {} THEN 0
    ELSE SEGMENTS[CHOOSE i \in Holding(q) :
                     \A j \in Holding(q) : SEGMENTS[i].order <= SEGMENTS[j].order].id

C15_InMemoryLowestOrder ==
    geoMem # None => geoMem.segment_id = LowestOrder(geoQuery)

\* a row or a table without the named columns
Without(r, cols) == [f \in DOMAIN r \ cols |-> r[f]]

Rows(tbl, cols) == {Without(r, cols) : r \in tbl}

Tables == DOMAIN EmptyTables

\* a run has completed right after a completed run
SecondRunDone == aggPc = "done" /\ prevOutcome = "done"

Computed(tbl) == Rows(tbl, {"created_at", "updated_at"})

\* C13: when a step of a run throws, the rows of every earlier step of the run
\* are in their tables with the values the run computed, and consolidate()
\* has rejected.
C13_EarlierPhasesCommitted ==
    aggPc = "failed" =>
        \A ph \in WritingPhases \cap 1..(aggPhase - 1) :
            Range(PhaseRows(ph, transit_data)) \subseteq Computed(pg[TableOf(ph)])

C13_Witness ==
    /\ aggPc = "failed"
    /\ aggPhase = LastPhase
    /\ pgAtStart = EmptyTables
    /\ \A ph \in WritingPhases \ {LastPhase} : pg[TableOf(ph)] # {}

\* the computed columns a complete run leaves in a table: the rows of its
\* query, and the rows the table held under other keys
Repaired(tbl, before, news) ==
    Range(news) \cup
        {Without(r, {"created_at", "updated_at"}) :
            r \in {o \in before : \A i \in 1..Len(news) : KeyOf(tbl, news[i]) # KeyOf(tbl, o)}}

\* C14: when a run completes after failed runs over the same raw data, every
\* rollup table holds, in its key and computed columns, what one complete run
\* from the tables before the first failed run leaves: one row per key.
C14_RepairedByNextRun ==
    (aggPc = "done" /\ prevOutcome = "failed") =>
        \A ph \in WritingPhases :
            /\ Computed(pg[TableOf(ph)]) =
                 Repaired(TableOf(ph), pgAtStart[TableOf(ph)], PhaseRows(ph, transit_data))
            /\ Cardinality(pg[TableOf(ph)]) = Cardinality(Computed(pg[TableOf(ph)]))

C14_Witness ==
    /\ aggPc = "done"
    /\ prevOutcome = "failed"
    /\ pgAtStart = StaleTables
    /\ \A tbl \in Tables : pg[tbl] # {}
    /\ \E r \in pg.daily_summary : r.created_at = 0 /\ r.total_records > 1

\* the route-12 rows of transit_data of a date and segment type
Group(date, type) == {x \in Route12Typed(transit_data) : x.date = date /\ x.segment_type = type}

\* the third step of the current run is over
SegmentPerfWritten == aggPc = "done" \/ (aggPc \in {"query", "upsert"} /\ aggPhase > 3)

\* C16: for each (date, segment_type) group of route-12 rows the persisted row
\* holds readings = count, delayed = the number of delayed rows, delay_pct =
\* 100 * delayed / count, on_time_pct = 100 - delay_pct and avg_speed = the mean
\* speed (percentages and speeds to two decimals, kept in hundredths).
C16_SegmentTypeRollup ==
    SegmentPerfWritten =>
        \A x \in Route12Typed(transit_data) :
            LET G == Group(x.date, x.segment_type)
            IN  \E r \in pg.daily_segment_performance :
                    /\ r.date = x.date
                    /\ r.segment_type = x.segment_type
                    /\ r.readings = Count(transit_data, G)
                    /\ r.delayed = Delayed(transit_data, G)
                    /\ r.delay_pct = Round2(100 * r.delayed, r.readings)
                    /\ r.on_time_pct = 10000 - r.delay_pct
                    /\ r.avg_speed = AvgSpeed(transit_data, G)

\* the raw table holds one dedicated_row row (speed 12, on time) and one
\* mixed_traffic row (speed 3, delayed) of route 12
OneOfEach ==
    transit_data = SetToBag({RowKinds[1], RowKinds[2]})

\* the example of C16: dedicated_row avg_speed 12.00 / delay_pct 0.00 and
\* mixed_traffic avg_speed 3.00 / delay_pct 100.00
C16_Example ==
    (SegmentPerfWritten /\ OneOfEach) =>
        Computed(pg.daily_segment_performance) =
            {[date |-> 1, segment_type |-> "dedicated_row", readings |-> 1, delayed |-> 0,
              delay_pct |-> 0, on_time_pct |-> 10000, avg_speed |-> 1200],
             [date |-> 1, segment_type |-> "mixed_traffic", readings |-> 1, delayed |-> 1,
              delay_pct |-> 10000, on_time_pct |-> 0, avg_speed |-> 300]}

\* C17: a malformed element of a message costs that element only: every
\* element of the message that makes a record, before and after the malformed
\* one, is pushed to the buffer.
C17_OnlyMalformedDropped == unbuffered = {}

\* C18: the process has exited only through the shutdown handler of a
\* termination signal, by its process.exit(0): no malformed message, transport
\* error or failed sink write ends it.
C18_ExitOnlyBySignal ==
    exited =>
        /\ exitedBy \in 1..MaxSignals
        /\ handlers[exitedBy].pc = "closing"
        /\ exitCode = 0

C18_Witness ==
    /\ exited
    /\ exitedBy \in 1..MaxSignals
    /\ exitCode = 0
    /\ stats.errors = MaxErrors
    /\ lastFail # None

\* C19: whenever an error takes a feed connection out of the open state, the
\* collector closes that connection and schedules one new connection attempt
\* after the fixed delay RECONNECT_DELAY; and the collector is never left
\* for good with no live connection and no reconnect scheduled.
Live(e) == e.readyState \in {"CONNECTING", "OPEN"}

Stranded == timers = <<>> /\ \A i \in DOMAIN es : ~Live(es[i])

C19_ClosedAndRescheduled ==
    /\ [][\A i \in DOMAIN es :
            (es[i].readyState = "OPEN" /\ es'[i].readyState # "OPEN") =>
                /\ es'[i].readyState = "CLOSED"
                /\ timers' = Append(timers, ReconnectTimer)]_vars
    /\ []<>~Stranded

\* the parts of C19 that hold: the collector is never stranded, every
\* timer it sets has the delay RECONNECT_DELAY, and a set timer leads to a new
\* connection attempt
C19_NeverStranded == ~Stranded

C19_SameDelay == \A k \in DOMAIN timers : timers[k].delay = RECONNECT_DELAY

C19_TimerReconnects ==
    \A n \in 1..(MaxErrors + 1) : (timers # <<>> /\ Len(es) = n) ~> (Len(es) > n)

\* C20: a process started with a required credential missing exits with a
\* non-zero code before any work: no feed connection has been opened and no
\* read or write of the durable or the summary store has completed.
MissingCredential == program \in Programs /\ \E c \in Required(program) : ~IsSet(c)

C20_FatalBeforeWork ==
    MissingCredential => /\ work = {}
                         /\ bootPc \notin {"running"}
                         /\ bootExit \in {-1, 1}

\* the part of C20 that holds of the collector
C20_CollectorFatalBeforeWork ==
    (MissingCredential /\ program = "collector") =>
        /\ work = {}
        /\ bootPc \in {"main", "exited"}
        /\ bootExit \in {-1, 1}

\* C21: a write of a batch to the sink is all-or-nothing: when a pending
\* write ends with a reported failure the store is as it was before, and when
\* it ends with a reported success the store has gained every record of the
\* batch.
Ended(f) == \A g \in inflight' : g.fid # f.fid

C21_AllOrNothing ==
    [][\A f \in inflight : Ended(f) =>
          IF stats'.uploadsCompleted > stats.uploadsCompleted
          THEN stored' = Committed(stored, f.snap, Len(f.snap))
          ELSE stored' = stored]_vars

\* C22: in run-once mode the process exits with code 0 when the pass has
\* completed and with code 1 when initialization or the pass threw; it never
\* exits 0 after a failed pass.
PassFailed == runs # <<>> /\ runs[1].state = "failed"

PassCompleted == runs # <<>> /\ runs[1].state = "ok"

C22_RunOnceExitCode ==
    (once /\ svcPc = "exited") =>
        /\ svcExit \in {0, 1}
        /\ PassCompleted => svcExit = 0
        /\ (PassFailed \/ exitCause = "init") => svcExit = 1
        /\ svcExit = 0 => ~PassFailed

C22_Witness == once /\ svcPc = "exited" /\ PassFailed /\ svcExit = 1

\* C23: in scheduled mode a failed run, the one made at startup or one
\* started by the cron trigger, does not end the service: once initialized
\* the process exits only on a signal.
C23_FailedRunKeepsService ==
    (~once /\ svcPc = "exited") => exitCause \in {"signal", "init"}

\* the part of C23 that holds: the scheduler of the Compactor outlives
\* the failure of its child
C23_SchedulerSurvives ==
    (service = "scheduler" /\ svcPc = "exited") => exitCause = "signal"

\* C26: at no time are two runs in progress in one service.
C26_RunsSerial == Cardinality(Running) <= 1

\* C27: the process does not exit on a signal while a run is in progress.
C27_NoExitDuringRun ==
    (svcPc = "exited" /\ exitCause = "signal") => Running = {}

\* C24: when a fragment of a date cannot be read and another can, the
\* fragment is skipped: the daily object of the date is written and holds
\* the records of the fragments that were read, and a failed read never ends
\* the run, which goes on to the dates that remain.
Readable == SelectSeq(files, LAMBDA f : f \notin skipped)

C25_WriteOnce ==
    [][/\ \A o \in objects : \A p \in objects' : p.key = o.key => p = o
       /\ (cpc = "upload" /\ cpc' = "delete") =>
              DailyKey(Head(dates)) \notin Keys(objects)]_vars

\* the part of C25 that holds: a fragment written by a flush is never
\* written again
C25_FragmentsWriteOnce ==
    [][\A o \in objects : \A p \in objects' :
          (p.key = o.key /\ o.key.kind = "raw") => p = o]_vars

\* C28: the client a call of insertVehiclePositions checked out is released
\* however the call ends: the clients checked out are exactly those of the
\* calls still between pool.connect() and the end of their try block, and
\* none when no call is in progress.
C28_ClientReleased ==
    /\ checkedOut = Cardinality({c \in poolCalls : HoldsClient(c)})
    /\ poolCalls = {} => checkedOut = 0

C28_Witness ==
    /\ poolCalls = {}
    /\ checkedOut = 0
    /\ {"empty", "filtered", "segments failed", "insert failed", "inserted"}
           \subseteq finished

\* C29: the steps of a run write their tables strictly in order: a table
\* changes only by an upsert of the step the run is in, at which time every
\* row of each earlier step is in its table; and once a step has thrown no
\* table changes for the rest of the run.
C29_PhasesInOrder ==
    [][/\ \A ph \in WritingPhases :
             pg'[TableOf(ph)] # pg[TableOf(ph)] =>
                 /\ aggPc = "upsert"
                 /\ aggPhase = ph
                 /\ \A q \in WritingPhases \cap 1..(ph - 1) :
                        Range(PhaseRows(q, transit_data)) \subseteq
                            Computed(pg[TableOf(q)])
       /\ aggPc = "failed" => pg' = pg]_vars

C29_Witness ==
    /\ aggPc = "upsert"
    /\ aggPhase = LastPhase
    /\ pgAtStart = EmptyTables
    /\ aggClock = 1
    /\ pending = <<>>
    /\ \A ph \in WritingPhases : pg[TableOf(ph)] # {}

\* C30: the records of every daily object are in ascending order of their
\* event timestamp, whatever the order of the fragments and of the records
\* inside them.
Ascending(recs) ==
    \A i, j \in 1..Len(recs) : i < j => recs[i].ts <= recs[j].ts

C30_DailySorted ==
    \A o \in objects : o.key.kind = "daily" => Ascending(o.recs)

C30_Witness ==
    /\ cpc = "delete"
    /\ skipped = {}
    /\ ~Ascending(RowsOfFiles(objects, files))
    /\ Len(RecsOf(objects, DailyKey(Head(dates)))) = Len(RowsOfFiles(objects, files))

\* ---------------------------------------------------------------------- C31
\* the layout a listing shows is consolidated: every date other than the
\* day has at most one fragment
ClosedDatesConsolidated(all, day) ==
    \A k \in HourlyFiles(all) :
        getDateFromFilename(k) # day => Len(ByDate(all, getDateFromFilename(k))) <= 1

\* the step of consolidate() that settles what the run will do
RunPlanned == cpc \in {"idle", "listed"} /\ cpc' \notin {"idle", "listed"}

\* C31: a run of the Compactor that finds every closed date consolidated or
\* with a single fragment ends with no upload and no deletion, and leaves the
\* stored objects as they were
C31_IdempotentOnConsolidated ==
    [][(RunPlanned /\ ClosedDatesConsolidated(allFiles', now))
          => /\ cpc' = "done"
             /\ uploaded' = {}
             /\ objects' = objects]_vars

\* a run has ended with nothing to do on a layout that holds a daily object,
\* a closed date with a single fragment and fragments of today
C31_Witness ==
    /\ cpc = "done"
    /\ uploaded = {}
    /\ ClosedDatesConsolidated(allFiles, today)
    /\ \E k \in allFiles : k.kind = "daily"
    /\ \E k \in HourlyFiles(allFiles) : k.date # today
    /\ \E k \in HourlyFiles(allFiles) : k.date = today

\* ---------------------------------------------------------------------- C32
\* the ids of the records the collector has uploaded so far
UploadedIds == 1..(fragNextId - 1)

\* C32: at every state of a compaction run a reader of all stored objects
\* obtains every uploaded record exactly once
C32_ReaderSeesEachOnce ==
    LET got == ReadParquetAll(objects)
    IN  \A id \in UploadedIds :
            \E r \in BagToSet(got) :
                /\ r.id = id
                /\ CopiesIn(r, got) = 1
                /\ \A q \in BagToSet(got) : q.id = id => q = r

\* ---------------------------------------------------------------------- C33
\* C33: the records-written counter of the row-store collector equals the
\* number of rows the process has durably written
C33_CounterMatchesWritten ==
    rowStats.vehiclesLogged = BagCardinality(rowStored)

\* the same for the collector of the analytical store
C33_BufferedMatchesStored ==
    stats.vehiclesBuffered = BagCardinality(stored)

\* ---------------------------------------------------------------------- C34
\* the insert of call c has failed in this step: its caller's catch has run
WriteFailed(c) ==
    /\ \A d \in rowCalls' : d.cid # c.cid
    /\ rowStats'.errors = rowStats.errors + 1

\* the ids of the vehicles the collector holds for a later insert
HeldForRetry ==
    Ids(messageBuffer) \cup UNION {Ids(d.vehicles) : d \in rowCalls}

\* C34: with BATCH_SIZE <= 1, when the write of a message fails the records of
\* the message are kept for a later flush
C34_FailedWriteKept ==
    [][BATCH_SIZE <= 1 =>
          \A c \in rowCalls :
              WriteFailed(c) => Ids(InsertValues(c.vehicles)) \subseteq HeldForRetry']_vars

\* ---------------------------------------------------------------------- C35
\* the records of s are in the order in which their elements arrived
InArrivalOrder(s) == \A i, j \in 1..Len(s) : i < j => s[i].id < s[j].id

\* C35: the buffer and the batch of every sink write are in arrival order
C35_BufferInArrivalOrder ==
    /\ InArrivalOrder(buffer)
    /\ \A f \in inflight : InArrivalOrder(f.snap)

\* ---------------------------------------------------------------------- C36
\* the ids of the rows of vehicle_positions
RowStoredIds == {r.id : r \in BagToSet(rowStored)}

\* C36: in batch mode a record leaves messageBuffer only when a successful
\* insert has written it
C36_NoBufferedRecordDiscarded ==
    [][BATCH_SIZE > 1 =>
          \A id \in Ids(InsertValues(messageBuffer)) \ Ids(messageBuffer') :
              id \in RowStoredIds']_vars

\* ---------------------------------------------------------------------- C37
\* the download loop of the date ends in this step
LoopEnds == cpc = "read" /\ readIdx = Len(files) /\ readIdx' # readIdx

LiveConnections == {i \in DOMAIN es : Live(es[i])}

\* C38: the connections that are open or connecting and the pending reconnect
\* timers are never more than one in total
C38_OneConnectionOrTimer ==
    Cardinality(LiveConnections) + Len(timers) <= 1

\* after an error that left the first connection to the library and one that
\* closed it, the reconnect timer has fired and the second connection is open
C38_Witness ==
    /\ Len(es) = 2
    /\ es[1].readyState = "CLOSED"
    /\ es[2].readyState = "OPEN"
    /\ timers = <<>>
    /\ stats.errors = 2

====
